---------------------------- MODULE Spec2Model ----------------------------
(***************************************************************************)
(* A model of the CCC compiler (LowLevelTeam/CCC): lexer, parser, semantic *)
(* analyzer, code generator and the driver that runs them in sequence.     *)
(*                                                                         *)
(* Conventions.  A character is a one-character string; a source text, a   *)
(* lexeme and an identifier are sequences of characters.  Offsets into the *)
(* source (start, current) are 0-based as in the C++ code, so the          *)
(* character at offset i is src[i + 1].  A null unique_ptr is NullNode.    *)
(***************************************************************************)
EXTENDS Integers, Sequences, FiniteSets, TLC

VARIABLES
    source,     \* Lexer::source, the text being compiled
    lex,        \* the Lexer's scanning state, its token vector and the ErrorHandler
    spans,      \* history: for each token, the offsets of its first and past-last character
    pc,         \* position of the running procedure
    errorHandler, \* the ErrorHandler of main(), shared by every stage
    parser,     \* the Parser inside program(): the declarations so far and its state
    ast,        \* the tree Parser::parse() returned
    semantic,   \* the SemanticAnalyzer after analyze(), with its histories
    coil,       \* the CodeGenerator after generate(), with the CoilObject it built
    ran,        \* history: the stages main() has run, in order
    exitCode,   \* the value main() returned, NotExited while it runs
    written,    \* whether the output file was written
    stderr      \* the lines main() has written to standard error

vars ==
    <<source, lex, spans, pc, errorHandler, parser, ast, semantic, coil, ran, exitCode, written,
      stderr>>

-----------------------------------------------------------------------------
(* Characters                                                              *)

NUL == "NUL"   \* the '\0' that peek() and peekNext() return at the end of the input

Alpha ==
    {"a", "b", "c", "d", "e", "f", "g", "h", "i", "j", "k", "l", "m", "n", "o",
     "p", "q", "r", "s", "t", "u", "v", "w", "x", "y", "z", "A", "B", "C", "D",
     "E", "F", "G", "H", "I", "J", "K", "L", "M", "N", "O", "P", "Q", "R", "S",
     "T", "U", "V", "W", "X", "Y", "Z"}

Digit == {"0", "1", "2", "3", "4", "5", "6", "7", "8", "9"}

isalpha(c) == c \in Alpha
isdigit(c) == c \in Digit
isalnum(c) == c \in Alpha \cup Digit

-----------------------------------------------------------------------------
(* Tokens (token.h, token.cpp)                                             *)

InputFile == "input.c"

Token(type, lexeme, filename, line, column) ==
    [type |-> type, lexeme |-> lexeme, filename |-> filename,
     line |-> line, column |-> column]

Keywords ==
    { [lexeme |-> <<"a", "u", "t", "o">>, type |-> "KW_AUTO"],
      [lexeme |-> <<"b", "r", "e", "a", "k">>, type |-> "KW_BREAK"],
      [lexeme |-> <<"c", "a", "s", "e">>, type |-> "KW_CASE"],
      [lexeme |-> <<"c", "h", "a", "r">>, type |-> "KW_CHAR"],
      [lexeme |-> <<"c", "o", "n", "s", "t">>, type |-> "KW_CONST"],
      [lexeme |-> <<"c", "o", "n", "t", "i", "n", "u", "e">>, type |-> "KW_CONTINUE"],
      [lexeme |-> <<"d", "e", "f", "a", "u", "l", "t">>, type |-> "KW_DEFAULT"],
      [lexeme |-> <<"d", "o">>, type |-> "KW_DO"],
      [lexeme |-> <<"d", "o", "u", "b", "l", "e">>, type |-> "KW_DOUBLE"],
      [lexeme |-> <<"e", "l", "s", "e">>, type |-> "KW_ELSE"],
      [lexeme |-> <<"e", "n", "u", "m">>, type |-> "KW_ENUM"],
      [lexeme |-> <<"e", "x", "t", "e", "r", "n">>, type |-> "KW_EXTERN"],
      [lexeme |-> <<"f", "l", "o", "a", "t">>, type |-> "KW_FLOAT"],
      [lexeme |-> <<"f", "o", "r">>, type |-> "KW_FOR"],
      [lexeme |-> <<"g", "o", "t", "o">>, type |-> "KW_GOTO"],
      [lexeme |-> <<"i", "f">>, type |-> "KW_IF"],
      [lexeme |-> <<"i", "n", "t">>, type |-> "KW_INT"],
      [lexeme |-> <<"l", "o", "n", "g">>, type |-> "KW_LONG"],
      [lexeme |-> <<"r", "e", "g", "i", "s", "t", "e", "r">>, type |-> "KW_REGISTER"],
      [lexeme |-> <<"r", "e", "t", "u", "r", "n">>, type |-> "KW_RETURN"],
      [lexeme |-> <<"s", "h", "o", "r", "t">>, type |-> "KW_SHORT"],
      [lexeme |-> <<"s", "i", "g", "n", "e", "d">>, type |-> "KW_SIGNED"],
      [lexeme |-> <<"s", "i", "z", "e", "o", "f">>, type |-> "KW_SIZEOF"],
      [lexeme |-> <<"s", "t", "a", "t", "i", "c">>, type |-> "KW_STATIC"],
      [lexeme |-> <<"s", "t", "r", "u", "c", "t">>, type |-> "KW_STRUCT"],
      [lexeme |-> <<"s", "w", "i", "t", "c", "h">>, type |-> "KW_SWITCH"],
      [lexeme |-> <<"t", "y", "p", "e", "d", "e", "f">>, type |-> "KW_TYPEDEF"],
      [lexeme |-> <<"u", "n", "i", "o", "n">>, type |-> "KW_UNION"],
      [lexeme |-> <<"u", "n", "s", "i", "g", "n", "e", "d">>, type |-> "KW_UNSIGNED"],
      [lexeme |-> <<"v", "o", "i", "d">>, type |-> "KW_VOID"],
      [lexeme |-> <<"v", "o", "l", "a", "t", "i", "l", "e">>, type |-> "KW_VOLATILE"],
      [lexeme |-> <<"w", "h", "i", "l", "e">>, type |-> "KW_WHILE"] }

(* The spelling of every operator and punctuation kind (Token::getTypeName). *)
TypeNames ==
    { [type |-> "OP_PLUS", text |-> <<"+">>],
      [type |-> "OP_MINUS", text |-> <<"-">>],
      [type |-> "OP_STAR", text |-> <<"*">>],
      [type |-> "OP_SLASH", text |-> <<"/">>],
      [type |-> "OP_PERCENT", text |-> <<"%">>],
      [type |-> "OP_AMPERSAND", text |-> <<"&">>],
      [type |-> "OP_PIPE", text |-> <<"|">>],
      [type |-> "OP_CARET", text |-> <<"^">>],
      [type |-> "OP_TILDE", text |-> <<"~">>],
      [type |-> "OP_EXCLAMATION", text |-> <<"!">>],
      [type |-> "OP_EQUALS", text |-> <<"=">>],
      [type |-> "OP_LESS", text |-> <<"<">>],
      [type |-> "OP_GREATER", text |-> <<">">>],
      [type |-> "OP_DOT", text |-> <<".">>],
      [type |-> "OP_ARROW", text |-> <<"-", ">">>],
      [type |-> "OP_PLUS_PLUS", text |-> <<"+", "+">>],
      [type |-> "OP_MINUS_MINUS", text |-> <<"-", "-">>],
      [type |-> "OP_PLUS_EQUALS", text |-> <<"+", "=">>],
      [type |-> "OP_MINUS_EQUALS", text |-> <<"-", "=">>],
      [type |-> "OP_STAR_EQUALS", text |-> <<"*", "=">>],
      [type |-> "OP_SLASH_EQUALS", text |-> <<"/", "=">>],
      [type |-> "OP_PERCENT_EQUALS", text |-> <<"%", "=">>],
      [type |-> "OP_AND_EQUALS", text |-> <<"&", "=">>],
      [type |-> "OP_OR_EQUALS", text |-> <<"|", "=">>],
      [type |-> "OP_XOR_EQUALS", text |-> <<"^", "=">>],
      [type |-> "OP_SHL_EQUALS", text |-> <<"<", "<", "=">>],
      [type |-> "OP_SHR_EQUALS", text |-> <<">", ">", "=">>],
      [type |-> "OP_EQUALS_EQUALS", text |-> <<"=", "=">>],
      [type |-> "OP_NOT_EQUALS", text |-> <<"!", "=">>],
      [type |-> "OP_LESS_EQUALS", text |-> <<"<", "=">>],
      [type |-> "OP_GREATER_EQUALS", text |-> <<">", "=">>],
      [type |-> "OP_SHL", text |-> <<"<", "<">>],
      [type |-> "OP_SHR", text |-> <<">", ">">>],
      [type |-> "OP_LOGICAL_AND", text |-> <<"&", "&">>],
      [type |-> "OP_LOGICAL_OR", text |-> <<"|", "|">>],
      [type |-> "OP_QUESTION", text |-> <<"?">>],
      [type |-> "SEMICOLON", text |-> <<";">>],
      [type |-> "COLON", text |-> <<":">>],
      [type |-> "COMMA", text |-> <<",">>],
      [type |-> "LEFT_PAREN", text |-> <<"(">>],
      [type |-> "RIGHT_PAREN", text |-> <<")">>],
      [type |-> "LEFT_BRACE", text |-> <<"{">>],
      [type |-> "RIGHT_BRACE", text |-> <<"}">>],
      [type |-> "LEFT_BRACKET", text |-> <<"[">>],
      [type |-> "RIGHT_BRACKET", text |-> <<"]">>],
      [type |-> "HASH", text |-> <<"#">>],
      [type |-> "ELLIPSIS", text |-> <<".", ".", ".">>] }

-----------------------------------------------------------------------------
(* ErrorHandler (error.h)                                                  *)

(* A diagnostic message: its fixed text and the lexeme or character        *)
(* appended to it (<<>> when the message has no variable part).            *)
Msg(text, arg) == [text |-> text, arg |-> arg]

ErrorEntry(level, message, filename, line, column) ==
    [level |-> level, message |-> message, filename |-> filename,
     line |-> line, column |-> column]

ErrorHandlerInit == [errors |-> <<>>, currentFilename |-> "", hadError |-> FALSE]

addError(eh, level, message, filename, line, column) ==
    [eh EXCEPT
        !.errors = Append(@, ErrorEntry(level, message,
                              IF filename = "" THEN eh.currentFilename ELSE filename,
                              line, column)),
        !.hadError = IF level = "ERROR" THEN TRUE ELSE @]

ehError(eh, line, column, message) ==
    [addError(eh, "ERROR", message, "", line, column) EXCEPT !.hadError = TRUE]

ehWarning(eh, line, column, message) ==
    addError(eh, "WARNING", message, "", line, column)

hasErrors(eh) == eh.hadError

-----------------------------------------------------------------------------
(* Lexer (lexer.cpp)                                                       *)
(*                                                                         *)
(* The scanning state L is the record                                      *)
(*   [start, current, line, column, tokens, eh]                            *)
(* of the Lexer's fields, the token vector tokenize() fills and the        *)
(* ErrorHandler it reports to.  Every operator below takes the source and  *)
(* a state and returns the state after the C++ function of the same name.  *)

LexerInit ==
    [start |-> 0, current |-> 0, line |-> 1, column |-> 1,
     tokens |-> <<>>, eh |-> ErrorHandlerInit]

isAtEnd(src, L) == L.current >= Len(src)

peek(src, L) == IF isAtEnd(src, L) THEN NUL ELSE src[L.current + 1]

peekNext(src, L) == IF L.current + 1 >= Len(src) THEN NUL ELSE src[L.current + 2]

(* advance(): column++, current++ (the character returned is peek before). *)
advance(L) == [L EXCEPT !.column = @ + 1, !.current = @ + 1]

(* match(expected): the test; on success the state moves as in advance().  *)
match(src, L, expected) == ~isAtEnd(src, L) /\ src[L.current + 1] = expected

lexError(L, line, column, message) ==
    [L EXCEPT !.eh = ehError(@, line, column, message)]

(* The body of the block-comment loop of comment(): to the closing star-    *)
(* slash or to the end of the input, where the error is reported.          *)
RECURSIVE blockCommentLoop(_, _, _, _)
blockCommentLoop(src, L, startLine, startColumn) ==
    IF isAtEnd(src, L)
    THEN lexError(L, startLine, startColumn, Msg("Unterminated block comment", <<>>))
    ELSE IF peek(src, L) = "*" /\ peekNext(src, L) = "/"
    THEN advance(advance(L))
    ELSE IF peek(src, L) = "\n"
    THEN blockCommentLoop(src, advance([L EXCEPT !.line = @ + 1, !.column = 1]),
                          startLine, startColumn)
    ELSE blockCommentLoop(src, advance(L), startLine, startColumn)

RECURSIVE lineCommentLoop(_, _)
lineCommentLoop(src, L) ==
    IF peek(src, L) # "\n" /\ ~isAtEnd(src, L)
    THEN lineCommentLoop(src, advance(L))
    ELSE L

comment(src, L) ==
    IF peek(src, L) = "/" /\ peekNext(src, L) = "/"
    THEN lineCommentLoop(src, advance(advance(L)))
    ELSE IF peek(src, L) = "/" /\ peekNext(src, L) = "*"
    THEN LET L2 == advance(advance(L))
         IN  blockCommentLoop(src, L2, L2.line, L2.column - 2)
    ELSE L

skipNewline(L) == advance([L EXCEPT !.line = @ + 1, !.column = 1])

RECURSIVE skipWhitespace(_, _)
skipWhitespace(src, L) ==
    LET c == peek(src, L)
    IN  IF c \in {" ", "\t", "\r"} THEN skipWhitespace(src, advance(L))
        ELSE IF c = "\n" THEN skipWhitespace(src, skipNewline(L))
        ELSE IF c = "/" /\ peekNext(src, L) \in {"/", "*"}
        THEN skipWhitespace(src, comment(src, L))
        ELSE L

makeToken(src, L, type) ==
    LET lexeme == SubSeq(src, L.start + 1, L.current)
    IN  Token(type, lexeme, InputFile, L.line, L.column - Len(lexeme))

addToken(src, L, type) == [L EXCEPT !.tokens = Append(@, makeToken(src, L, type))]

RECURSIVE identifierLoop(_, _)
identifierLoop(src, L) ==
    IF isalnum(peek(src, L)) \/ peek(src, L) = "_"
    THEN identifierLoop(src, advance(L))
    ELSE L

identifierType(text) ==
    IF \E k \in Keywords : k.lexeme = text
    THEN (CHOOSE k \in Keywords : k.lexeme = text).type
    ELSE "IDENTIFIER"

identifier(src, L) ==
    LET L2 == identifierLoop(src, L)
        text == SubSeq(src, L2.start + 1, L2.current)
    IN  addToken(src, L2, identifierType(text))

RECURSIVE digits(_, _)
digits(src, L) == IF isdigit(peek(src, L)) THEN digits(src, advance(L)) ELSE L

(* The suffix part of number(); isFloat is the flag computed so far.       *)
numberSuffix(src, L, isFloat) ==
    LET c == peek(src, L)
        L2 == advance(L)
    IN  IF c \in {"f", "F"} THEN addToken(src, L2, "FLOAT_LITERAL")
        ELSE IF c \in {"l", "L"}
        THEN addToken(src, IF peek(src, L2) \in {"u", "U"} THEN advance(L2) ELSE L2,
                      IF isFloat THEN "FLOAT_LITERAL" ELSE "INTEGER_LITERAL")
        ELSE IF c \in {"u", "U"}
        THEN addToken(src, IF peek(src, L2) \in {"l", "L"} THEN advance(L2) ELSE L2,
                      IF isFloat THEN "FLOAT_LITERAL" ELSE "INTEGER_LITERAL")
        ELSE addToken(src, L, IF isFloat THEN "FLOAT_LITERAL" ELSE "INTEGER_LITERAL")

number(src, L) ==
    LET L1 == digits(src, L)
        hasFraction == peek(src, L1) = "." /\ isdigit(peekNext(src, L1))
        L2 == IF hasFraction THEN digits(src, advance(L1)) ELSE L1
        hasExponent == peek(src, L2) \in {"e", "E"}
        L3 == advance(L2)
        L4 == IF peek(src, L3) \in {"+", "-"} THEN advance(L3) ELSE L3
    IN  IF hasExponent
        THEN IF ~isdigit(peek(src, L4))
             THEN lexError(L4, L4.line, L4.column,
                      Msg("Invalid floating point number: exponent has no digits", <<>>))
             ELSE numberSuffix(src, digits(src, L4), TRUE)
        ELSE numberSuffix(src, L2, hasFraction)

(* The loop of string(): the result carries the flag of the break taken    *)
(* when a backslash is the last character of the input.                    *)
RECURSIVE stringLoop(_, _, _, _)
stringLoop(src, L, startLine, startColumn) ==
    IF peek(src, L) # "\"" /\ ~isAtEnd(src, L)
    THEN LET L1 == IF peek(src, L) = "\n"
                   THEN [L EXCEPT !.line = @ + 1, !.column = 1] ELSE L
         IN  IF peek(src, L1) = "\\"
             THEN LET L2 == advance(L1)
                  IN  IF isAtEnd(src, L2)
                      THEN lexError(L2, startLine, startColumn,
                               Msg("Unterminated string literal: expected escape sequence", <<>>))
                      ELSE stringLoop(src, advance(L2), startLine, startColumn)
             ELSE stringLoop(src, advance(L1), startLine, startColumn)
    ELSE L

string(src, L) ==
    LET startLine == L.line
        startColumn == L.column - 1
        L1 == stringLoop(src, L, startLine, startColumn)
    IN  IF isAtEnd(src, L1)
        THEN lexError(L1, startLine, startColumn, Msg("Unterminated string literal", <<>>))
        ELSE addToken(src, advance(L1), "STRING_LITERAL")

RECURSIVE toNextQuote(_, _)
toNextQuote(src, L) ==
    IF peek(src, L) # "'" /\ ~isAtEnd(src, L) THEN toNextQuote(src, advance(L)) ELSE L

(* The end of character(): the check for the closing quote.                *)
characterClose(src, L, startLine, startColumn) ==
    LET L1 == IF peek(src, L) # "'"
              THEN toNextQuote(src,
                       lexError(L, startLine, startColumn,
                           Msg("Multi-character character literal or missing closing quote", <<>>)))
              ELSE L
    IN  IF peek(src, L1) = "'"
        THEN addToken(src, advance(L1), "CHAR_LITERAL")
        ELSE lexError(L1, startLine, startColumn, Msg("Unterminated character literal", <<>>))

character(src, L) ==
    LET startLine == L.line
        startColumn == L.column - 1
    IN  IF peek(src, L) = "\\"
        THEN LET L1 == advance(L)
             IN  IF isAtEnd(src, L1)
                 THEN lexError(L1, startLine, startColumn,
                          Msg("Unterminated character literal: expected escape sequence", <<>>))
                 ELSE characterClose(src, advance(L1), startLine, startColumn)
        ELSE IF peek(src, L) # "'" /\ ~isAtEnd(src, L)
        THEN characterClose(src, advance(L), startLine, startColumn)
        ELSE LET L1 == lexError(L, startLine, startColumn, Msg("Empty character literal", <<>>))
             IN  IF peek(src, L1) = "'" THEN advance(L1) ELSE L1

(* The cases of the switch of scanToken() that look ahead.  L is the state *)
(* after the leading character was consumed.                               *)
scanDot(src, L) ==
    IF peek(src, L) = "." /\ peekNext(src, L) = "."
    THEN addToken(src, advance(advance(L)), "ELLIPSIS")
    ELSE addToken(src, L, "OP_DOT")

scanPlus(src, L) ==
    IF match(src, L, "+") THEN addToken(src, advance(L), "OP_PLUS_PLUS")
    ELSE IF match(src, L, "=") THEN addToken(src, advance(L), "OP_PLUS_EQUALS")
    ELSE addToken(src, L, "OP_PLUS")

scanMinus(src, L) ==
    IF match(src, L, ">") THEN addToken(src, advance(L), "OP_ARROW")
    ELSE IF match(src, L, "-") THEN addToken(src, advance(L), "OP_MINUS_MINUS")
    ELSE IF match(src, L, "=") THEN addToken(src, advance(L), "OP_MINUS_EQUALS")
    ELSE addToken(src, L, "OP_MINUS")

(* case c: if (match('=')) addToken(withEquals) else addToken(alone)       *)
scanWithEquals(src, L, withEquals, alone) ==
    IF match(src, L, "=") THEN addToken(src, advance(L), withEquals)
    ELSE addToken(src, L, alone)

(* case '&' and case '|': the doubled character, then '=', else alone      *)
scanLogical(src, L, c, doubled, withEquals, alone) ==
    IF match(src, L, c) THEN addToken(src, advance(L), doubled)
    ELSE IF match(src, L, "=") THEN addToken(src, advance(L), withEquals)
    ELSE addToken(src, L, alone)

scanShiftNoShiftEquals(src, L, c, lessEquals, shiftEquals, shift, alone) ==
    IF match(src, L, "=") THEN addToken(src, advance(L), lessEquals)
    ELSE IF match(src, L, c) THEN addToken(src, advance(L), shift)
    ELSE addToken(src, L, alone)

(* case '<' and case '>'                                                   *)
scanShift(src, L, c, lessEquals, shiftEquals, shift, alone) ==
    IF match(src, L, "=") THEN addToken(src, advance(L), lessEquals)
    ELSE IF match(src, L, c)
    THEN LET L2 == advance(L)
         IN  IF match(src, L2, "=") THEN addToken(src, advance(L2), shiftEquals)
             ELSE addToken(src, L2, shift)
    ELSE addToken(src, L, alone)

SingleCharTokens ==
    { [c |-> "(", type |-> "LEFT_PAREN"],   [c |-> ")", type |-> "RIGHT_PAREN"],
      [c |-> "{", type |-> "LEFT_BRACE"],   [c |-> "}", type |-> "RIGHT_BRACE"],
      [c |-> "[", type |-> "LEFT_BRACKET"], [c |-> "]", type |-> "RIGHT_BRACKET"],
      [c |-> ";", type |-> "SEMICOLON"],    [c |-> ":", type |-> "COLON"],
      [c |-> ",", type |-> "COMMA"],        [c |-> "~", type |-> "OP_TILDE"],
      [c |-> "?", type |-> "OP_QUESTION"],  [c |-> "#", type |-> "HASH"] }

(* The switch of scanToken(); c is the character advance() returned and L  *)
(* the state after it.                                                     *)
scanSwitch(src, L, c) ==
    CASE \E s \in SingleCharTokens : s.c = c ->
            addToken(src, L, (CHOOSE s \in SingleCharTokens : s.c = c).type)
      [] c = "." -> scanDot(src, L)
      [] c = "+" -> scanPlus(src, L)
      [] c = "-" -> scanMinus(src, L)
      [] c = "*" -> scanWithEquals(src, L, "OP_STAR_EQUALS", "OP_STAR")
      [] c = "/" -> scanWithEquals(src, L, "OP_SLASH_EQUALS", "OP_SLASH")
      [] c = "%" -> scanWithEquals(src, L, "OP_PERCENT_EQUALS", "OP_PERCENT")
      [] c = "&" ->
            scanLogical(src, L, "&", "OP_LOGICAL_AND", "OP_AND_EQUALS", "OP_AMPERSAND")
      [] c = "|" -> scanLogical(src, L, "|", "OP_LOGICAL_OR", "OP_OR_EQUALS", "OP_PIPE")
      [] c = "^" -> scanWithEquals(src, L, "OP_XOR_EQUALS", "OP_CARET")
      [] c = "!" -> scanWithEquals(src, L, "OP_NOT_EQUALS", "OP_EXCLAMATION")
      [] c = "=" -> scanWithEquals(src, L, "OP_EQUALS_EQUALS", "OP_EQUALS")
      [] c = "<" ->
            scanShift(src, L, "<", "OP_LESS_EQUALS", "OP_SHL_EQUALS", "OP_SHL", "OP_LESS")
      [] c = ">" ->
            scanShift(src, L, ">", "OP_GREATER_EQUALS", "OP_SHR_EQUALS", "OP_SHR",
                      "OP_GREATER")
      [] c = "\"" -> string(src, L)
      [] c = "'" -> character(src, L)
      [] OTHER -> lexError(L, L.line, L.column, Msg("Unexpected character: ", <<c>>))

scanTokenEofAtEnd(src, L) ==
    LET L1 == skipWhitespace(src, L)
    IN  IF isAtEnd(src, L1) THEN addToken(src, L1, "END_OF_FILE")
        ELSE LET c == peek(src, L1)
             IN  IF isalpha(c) \/ c = "_" THEN identifier(src, L1)
                 ELSE IF isdigit(c) THEN number(src, L1)
                 ELSE scanSwitch(src, advance(L1), c)

(* a scanToken that hands the character to the switch without consuming it *)
scanTokenNoAdvance(src, L) ==
    LET L1 == skipWhitespace(src, L)
    IN  IF isAtEnd(src, L1) THEN L1
        ELSE LET c == peek(src, L1)
             IN  IF isalpha(c) \/ c = "_" THEN identifier(src, L1)
                 ELSE IF isdigit(c) THEN number(src, L1)
                 ELSE scanSwitch(src, L1, c)

(* scanToken(): for an identifier or a number the code steps back over the *)
(* character it consumed (current--, column--), which is the state L1.     *)
scanToken(src, L) ==
    LET L1 == skipWhitespace(src, L)
    IN  IF isAtEnd(src, L1) THEN L1
        ELSE LET c == peek(src, L1)
             IN  IF isalpha(c) \/ c = "_" THEN identifier(src, L1)
                 ELSE IF isdigit(c) THEN number(src, L1)
                 ELSE scanSwitch(src, advance(L1), c)

(* tokenize(): the loop, then the END_OF_FILE token.                       *)
RECURSIVE tokenizeLoop(_, _)
tokenizeLoop(src, L) ==
    IF ~isAtEnd(src, L)
    THEN tokenizeLoop(src, scanToken(src, [L EXCEPT !.start = L.current]))
    ELSE L

pushEof(L) ==
    [L EXCEPT !.tokens = Append(@, Token("END_OF_FILE", <<>>, InputFile, L.line, L.column))]

tokenize(src, eh) == pushEof(tokenizeLoop(src, [LexerInit EXCEPT !.eh = eh]))

-----------------------------------------------------------------------------
(* Syntax tree (ast.h).  A node is a record with its class as kind.        *)

NullNode == [kind |-> "Null"]
NotExited == -1

LiteralNode(token) == [kind |-> "LiteralNode", token |-> token]
VariableNode(name) == [kind |-> "VariableNode", name |-> name]
UnaryNode(op, operand) == [kind |-> "UnaryNode", op |-> op, operand |-> operand]
BinaryNode(left, op, right) ==
    [kind |-> "BinaryNode", left |-> left, op |-> op, right |-> right]
CallNode(callee, arguments) ==
    [kind |-> "CallNode", callee |-> callee, arguments |-> arguments]
ArrayAccessNode(array, index) ==
    [kind |-> "ArrayAccessNode", array |-> array, index |-> index]
MemberAccessNode(object, op, member) ==
    [kind |-> "MemberAccessNode", object |-> object, op |-> op, member |-> member]
ConditionalNode(condition, trueExpr, falseExpr) ==
    [kind |-> "ConditionalNode", condition |-> condition,
     trueExpr |-> trueExpr, falseExpr |-> falseExpr]
TypeNode(name, isConst, isVolatile, isPointer, pointerLevel) ==
    [kind |-> "TypeNode", name |-> name, isConst |-> isConst, isVolatile |-> isVolatile,
     isPointer |-> isPointer, pointerLevel |-> pointerLevel]
ExpressionStatementNode(expression) ==
    [kind |-> "ExpressionStatementNode", expression |-> expression]
BlockNode(statements) == [kind |-> "BlockNode", statements |-> statements]
VariableDeclarationNode(type, name, initializer) ==
    [kind |-> "VariableDeclarationNode", type |-> type, name |-> name,
     initializer |-> initializer]
IfNode(condition, thenBranch, elseBranch) ==
    [kind |-> "IfNode", condition |-> condition, thenBranch |-> thenBranch,
     elseBranch |-> elseBranch]
WhileNode(condition, body) == [kind |-> "WhileNode", condition |-> condition, body |-> body]
DoWhileNode(body, condition) ==
    [kind |-> "DoWhileNode", body |-> body, condition |-> condition]
ForNode(initializer, condition, increment, body) ==
    [kind |-> "ForNode", initializer |-> initializer, condition |-> condition,
     increment |-> increment, body |-> body]
ReturnNode(value) == [kind |-> "ReturnNode", value |-> value]
BreakNode == [kind |-> "BreakNode"]
ContinueNode == [kind |-> "ContinueNode"]
ParameterNode(type, name) == [kind |-> "ParameterNode", type |-> type, name |-> name]
FunctionDeclarationNode(returnType, name, parameters, body) ==
    [kind |-> "FunctionDeclarationNode", returnType |-> returnType, name |-> name,
     parameters |-> parameters, body |-> body]
ProgramNode(declarations) == [kind |-> "ProgramNode", declarations |-> declarations]

-----------------------------------------------------------------------------
(* Parser (parser.cpp).  P is the parser's state: current, the             *)
(* ErrorHandler, and exc, the what() of the std::runtime_error in flight   *)
(* ("" when none).  A parsing function returns the node and the state; a   *)
(* function that finds exc set returns at once, as the C++ unwinds.        *)

(* stalled is history: a turn of the declaration loop or of the block loop *)
(* that ended at the token it began at                                     *)
ParserInit(eh) == [current |-> 0, eh |-> eh, exc |-> "", stalled |-> FALSE]
R(node, P) == [node |-> node, P |-> P]
Thrown(P) == P.exc # ""

parserIsAtEnd(toks, P) ==
    P.current >= Len(toks) \/ toks[P.current + 1].type = "END_OF_FILE"
parserPeek(toks, P) == toks[P.current + 1]
previous(toks, P) == toks[P.current]
parserAdvance(toks, P) ==
    IF ~parserIsAtEnd(toks, P) THEN [P EXCEPT !.current = @ + 1] ELSE P
check(toks, P, type) == ~parserIsAtEnd(toks, P) /\ parserPeek(toks, P).type = type
(* match(types): true, and the token consumed, when the token is of one of the types *)
matches(toks, P, types) == ~parserIsAtEnd(toks, P) /\ parserPeek(toks, P).type \in types

(* errorHandler.error(peek().line, peek().column, message); throw runtime_error(message) *)
throwError(toks, P, message) ==
    [P EXCEPT !.eh = ehError(@, parserPeek(toks, P).line, parserPeek(toks, P).column,
                             Msg(message, <<>>)),
              !.exc = message]

consume(toks, P, type, message) ==
    IF check(toks, P, type) THEN parserAdvance(toks, P) ELSE throwError(toks, P, message)

TypeSpecifiers ==
    {"KW_VOID", "KW_CHAR", "KW_SHORT", "KW_INT", "KW_LONG", "KW_FLOAT", "KW_DOUBLE",
     "KW_SIGNED", "KW_UNSIGNED", "KW_CONST", "KW_VOLATILE"}
isTypeSpecifier(token) == token.type \in TypeSpecifiers

SynchronizeStops ==
    {"KW_IF", "KW_WHILE", "KW_FOR", "KW_RETURN", "KW_BREAK", "KW_CONTINUE", "KW_VOID",
     "KW_CHAR", "KW_SHORT", "KW_INT", "KW_LONG", "KW_FLOAT", "KW_DOUBLE"}

RECURSIVE synchronizeLoop(_, _)
synchronizeLoop(toks, P) ==
    IF parserIsAtEnd(toks, P) THEN P
    ELSE IF previous(toks, P).type = "SEMICOLON" THEN P
    ELSE IF parserPeek(toks, P).type \in SynchronizeStops THEN P
    ELSE synchronizeLoop(toks, parserAdvance(toks, P))

synchronize(toks, P) == synchronizeLoop(toks, parserAdvance(toks, P))

(* a catch clause that reports the error and does not synchronize *)
catchNoSynchronize(toks, P) ==
    [P EXCEPT !.eh = ehError(@, parserPeek(toks, P).line, parserPeek(toks, P).column,
                             Msg(P.exc, <<>>)),
              !.exc = ""]

(* catch (const std::exception& e) { error(peek() position, e.what()); synchronize(); } *)
catchAndSynchronize(toks, P) ==
    synchronize(toks, [P EXCEPT !.eh = ehError(@, parserPeek(toks, P).line,
                                               parserPeek(toks, P).column,
                                               Msg(P.exc, <<>>)),
                                !.exc = ""])

(* Sequencing.  A function that parses several parts in a row is written  *)
(* as a pipeline: r carries the parts parsed so far and the state, each    *)
(* step does nothing once an exception is in flight, and the last step     *)
(* builds the node from the parts.                                         *)
RECURSIVE parseRule(_, _, _)

Parts(parts, P) == [parts |-> parts, P |-> P]
push(r, x) == Parts(Append(r.parts, x.node), x.P)

thenConsume(toks, r, type, message) ==
    IF Thrown(r.P) THEN r ELSE [r EXCEPT !.P = consume(toks, @, type, message)]

thenParse(toks, r, rule) ==
    IF Thrown(r.P) THEN r ELSE push(r, parseRule(toks, r.P, rule))

(* const Token& name = peek(); *)
thenPeek(toks, r) ==
    IF Thrown(r.P) THEN r ELSE [r EXCEPT !.parts = Append(@, parserPeek(toks, r.P))]

(* if (match(type)) part = rule(); else part = nullptr; *)
thenParseIfMatch(toks, r, type, rule) ==
    IF Thrown(r.P) THEN r
    ELSE IF matches(toks, r.P, {type})
    THEN push(r, parseRule(toks, parserAdvance(toks, r.P), rule))
    ELSE push(r, R(NullNode, r.P))

(* if (!check(type)) part = rule(); else part = nullptr; *)
thenParseUnlessCheck(toks, r, type, rule) ==
    IF Thrown(r.P) THEN r
    ELSE IF ~check(toks, r.P, type) THEN push(r, parseRule(toks, r.P, rule))
    ELSE push(r, R(NullNode, r.P))

makeNode(kind, r) ==
    LET p == r.parts
    IN  IF Thrown(r.P) THEN R(NullNode, r.P)
        ELSE R(CASE kind = "ArrayAccessNode" -> ArrayAccessNode(p[1], p[2])
                 [] kind = "CallNode" -> CallNode(p[1], SubSeq(p, 2, Len(p)))
                 [] kind = "ConditionalNode" -> ConditionalNode(p[1], p[2], p[3])
                 [] kind = "ExpressionStatementNode" -> ExpressionStatementNode(p[1])
                 [] kind = "BlockNode" -> BlockNode(p)
                 [] kind = "VariableDeclarationNode" ->
                        VariableDeclarationNode(p[1], p[2], p[3])
                 [] kind = "IfNode" -> IfNode(p[1], p[2], p[3])
                 [] kind = "WhileNode" -> WhileNode(p[1], p[2])
                 [] kind = "DoWhileNode" -> DoWhileNode(p[1], p[2])
                 [] kind = "ForNode" -> ForNode(p[1], p[2], p[3], p[4])
                 [] kind = "ReturnNode" -> ReturnNode(p[1])
                 [] kind = "BreakNode" -> BreakNode
                 [] kind = "ContinueNode" -> ContinueNode
                 [] kind = "FunctionDeclarationNode" ->
                        FunctionDeclarationNode(p[1], p[2], p[3], p[4])
                 [] kind = "ProgramNode" -> ProgramNode(p),
               r.P)

RECURSIVE typeQualifiers(_, _, _, _)
typeQualifiers(toks, P, isConst, isVolatile) ==
    IF matches(toks, P, {"KW_CONST"})
    THEN typeQualifiers(toks, parserAdvance(toks, P), TRUE, isVolatile)
    ELSE IF matches(toks, P, {"KW_VOLATILE"})
    THEN typeQualifiers(toks, parserAdvance(toks, P), isConst, TRUE)
    ELSE [P |-> P, isConst |-> isConst, isVolatile |-> isVolatile]

RECURSIVE pointerStars(_, _, _)
pointerStars(toks, P, pointerLevel) ==
    IF matches(toks, P, {"OP_STAR"})
    THEN pointerStars(toks, parserAdvance(toks, P), pointerLevel + 1)
    ELSE [P |-> P, pointerLevel |-> pointerLevel]

(* typeSpecifier() after the qualifiers q, and after the stars s *)
typeNodeOf(baseType, q, s) ==
    R(TypeNode(baseType, q.isConst, q.isVolatile, s.pointerLevel > 0, s.pointerLevel), s.P)

typeBase(toks, q) ==
    IF ~isTypeSpecifier(parserPeek(toks, q.P))
    THEN R(NullNode, throwError(toks, q.P, "Expected type specifier"))
    ELSE typeNodeOf(parserPeek(toks, q.P), q, pointerStars(toks, parserAdvance(toks, q.P), 0))

typeSpecifier(toks, P) == typeBase(toks, typeQualifiers(toks, P, FALSE, FALSE))

(* Expressions.  The ten functions logicalOr() ... factor() are one loop   *)
(* each over the operators of their level.                                 *)
LiteralTypes == {"INTEGER_LITERAL", "FLOAT_LITERAL", "CHAR_LITERAL", "STRING_LITERAL"}

AssignmentOperators ==
    {"OP_EQUALS", "OP_PLUS_EQUALS", "OP_MINUS_EQUALS", "OP_STAR_EQUALS", "OP_SLASH_EQUALS",
     "OP_PERCENT_EQUALS", "OP_AND_EQUALS", "OP_OR_EQUALS", "OP_XOR_EQUALS",
     "OP_SHL_EQUALS", "OP_SHR_EQUALS"}

(* the switch of assignment(): += to +, etc.; UNKNOWN for = *)
binaryOpOf(type) ==
    CASE type = "OP_PLUS_EQUALS" -> "OP_PLUS"
      [] type = "OP_MINUS_EQUALS" -> "OP_MINUS"
      [] type = "OP_STAR_EQUALS" -> "OP_STAR"
      [] type = "OP_SLASH_EQUALS" -> "OP_SLASH"
      [] type = "OP_PERCENT_EQUALS" -> "OP_PERCENT"
      [] type = "OP_AND_EQUALS" -> "OP_AMPERSAND"
      [] type = "OP_OR_EQUALS" -> "OP_PIPE"
      [] type = "OP_XOR_EQUALS" -> "OP_CARET"
      [] type = "OP_SHL_EQUALS" -> "OP_SHL"
      [] type = "OP_SHR_EQUALS" -> "OP_SHR"
      [] OTHER -> "UNKNOWN"

LevelOperators ==
    << {"OP_LOGICAL_OR"}, {"OP_LOGICAL_AND"}, {"OP_PIPE"}, {"OP_CARET"}, {"OP_AMPERSAND"},
       {"OP_EQUALS_EQUALS", "OP_NOT_EQUALS"},
       {"OP_LESS", "OP_LESS_EQUALS", "OP_GREATER", "OP_GREATER_EQUALS"},
       {"OP_SHL", "OP_SHR"}, {"OP_PLUS", "OP_MINUS"},
       {"OP_STAR", "OP_SLASH", "OP_PERCENT"} >>

UnaryOperators ==
    {"OP_MINUS", "OP_PLUS", "OP_EXCLAMATION", "OP_TILDE", "OP_STAR", "OP_AMPERSAND",
     "OP_PLUS_PLUS", "OP_MINUS_MINUS"}

primary(toks, P) ==
    IF matches(toks, P, LiteralTypes)
    THEN R(LiteralNode(parserPeek(toks, P)), parserAdvance(toks, P))
    ELSE IF matches(toks, P, {"IDENTIFIER"})
    THEN R(VariableNode(parserPeek(toks, P)), parserAdvance(toks, P))
    ELSE IF matches(toks, P, {"LEFT_PAREN"})
    THEN thenConsume(toks, parseRule(toks, parserAdvance(toks, P), "expression"),
                     "RIGHT_PAREN", "Expected ')' after expression")
    ELSE R(NullNode, throwError(toks, P, "Expected expression"))

(* do { list.push_back(rule()); } while (match(COMMA)): the arguments of  *)
(* a call in postfix(), and parameterList()                                *)
RECURSIVE commaList(_, _, _)
commaNext(toks, r, rule) ==
    IF Thrown(r.P) \/ ~matches(toks, r.P, {"COMMA"}) THEN r
    ELSE commaList(toks, [r EXCEPT !.P = parserAdvance(toks, @)], rule)

commaList(toks, r, rule) == commaNext(toks, thenParse(toks, r, rule), rule)

RECURSIVE postfixLoop(_, _)
postfixLoop(toks, r) ==
    IF Thrown(r.P) THEN r
    ELSE IF matches(toks, r.P, {"LEFT_BRACKET"})
    THEN postfixLoop(toks,
            makeNode("ArrayAccessNode",
                thenConsume(toks,
                    thenParse(toks, Parts(<<r.node>>, parserAdvance(toks, r.P)), "expression"),
                    "RIGHT_BRACKET", "Expected ']' after array index")))
    ELSE IF matches(toks, r.P, {"LEFT_PAREN"})
    THEN postfixLoop(toks,
            makeNode("CallNode",
                thenConsume(toks,
                    IF ~check(toks, parserAdvance(toks, r.P), "RIGHT_PAREN")
                    THEN commaList(toks, Parts(<<r.node>>, parserAdvance(toks, r.P)), "expression")
                    ELSE Parts(<<r.node>>, parserAdvance(toks, r.P)),
                    "RIGHT_PAREN", "Expected ')' after arguments")))
    ELSE IF matches(toks, r.P, {"OP_DOT", "OP_ARROW"})
    THEN postfixLoop(toks,
            R(MemberAccessNode(r.node, parserPeek(toks, r.P),
                               parserPeek(toks, parserAdvance(toks, r.P))),
              consume(toks, parserAdvance(toks, r.P), "IDENTIFIER",
                      "Expected identifier after '.' or '->'")))
    ELSE IF matches(toks, r.P, {"OP_PLUS_PLUS", "OP_MINUS_MINUS"})
    THEN postfixLoop(toks, R(UnaryNode(parserPeek(toks, r.P), r.node),
                             parserAdvance(toks, r.P)))
    ELSE r

postfix(toks, P) == postfixLoop(toks, primary(toks, P))

unaryNodeOf(op, operand) ==
    IF Thrown(operand.P) THEN operand ELSE R(UnaryNode(op, operand.node), operand.P)

RECURSIVE unary(_, _)
unary(toks, P) ==
    IF matches(toks, P, UnaryOperators)
    THEN unaryNodeOf(parserPeek(toks, P), unary(toks, parserAdvance(toks, P)))
    ELSE postfix(toks, P)

binaryNodeOf(left, op, right) ==
    IF Thrown(right.P) THEN right ELSE R(BinaryNode(left, op, right.node), right.P)

(* The loop of logicalOr() ... factor(): while an operator of the level     *)
(* follows, parse a right operand of the next level and build the node.    *)
RECURSIVE binaryLoop(_, _, _)
RECURSIVE binaryLoops(_, _, _, _)
binaryLevel(toks, P, level) ==
    binaryLoops(toks, unary(toks, P), Len(LevelOperators), level)

binaryLoop(toks, r, level) ==
    IF Thrown(r.P) \/ ~matches(toks, r.P, LevelOperators[level]) THEN r
    ELSE binaryLoop(toks,
                    binaryNodeOf(r.node, parserPeek(toks, r.P),
                                 binaryLevel(toks, parserAdvance(toks, r.P), level + 1)),
                    level)

(* An operand of a level is what unary() returns passed through the loops  *)
(* of the levels below it, innermost (factor) first: logicalOr() calls     *)
(* logicalAnd() calls ... factor() calls unary(), and each runs its loop   *)
(* on what the call returned.                                              *)
binaryLoops(toks, r, level, lowest) ==
    IF Thrown(r.P) \/ level < lowest THEN r
    ELSE binaryLoops(toks, binaryLoop(toks, r, level), level - 1, lowest)

conditionalRest(toks, condition) ==
    IF Thrown(condition.P) \/ ~matches(toks, condition.P, {"OP_QUESTION"}) THEN condition
    ELSE makeNode("ConditionalNode",
            thenParse(toks,
                thenConsume(toks,
                    thenParse(toks,
                        Parts(<<condition.node>>, parserAdvance(toks, condition.P)),
                        "expression"),
                    "COLON", "Expected ':' in conditional expression"),
                "conditionalExpr"))

conditionalExpr(toks, P) == conditionalRest(toks, binaryLevel(toks, P, 1))

(* Token binaryToken(binaryOp, op.lexeme.substr(0, op.lexeme.size() - 1), ...) *)
binaryToken(op) ==
    Token(binaryOpOf(op.type), SubSeq(op.lexeme, 1, Len(op.lexeme) - 1),
          op.filename, op.line, op.column)

equalsToken(op) == Token("OP_EQUALS", <<"=">>, op.filename, op.line, op.column)

(* The node assignment() builds.  For a compound assignment expr is moved  *)
(* into the inner node first, so the second std::move(expr) hands a null   *)
(* pointer to the outer node as its left operand.                          *)
assignmentNodeOf(expr, op, value) ==
    IF Thrown(value.P) THEN value
    ELSE IF binaryOpOf(op.type) # "UNKNOWN"
    THEN R(BinaryNode(NullNode, equalsToken(op),
                      BinaryNode(expr, binaryToken(op), value.node)),
           value.P)
    ELSE R(BinaryNode(expr, op, value.node), value.P)

assignmentRest(toks, expr) ==
    IF Thrown(expr.P) \/ ~matches(toks, expr.P, AssignmentOperators) THEN expr
    ELSE assignmentNodeOf(expr.node, parserPeek(toks, expr.P),
                          parseRule(toks, parserAdvance(toks, expr.P), "assignment"))

assignment(toks, P) == assignmentRest(toks, conditionalExpr(toks, P))

expression(toks, P) == assignment(toks, P)

(* Statements and declarations.                                            *)
variableDeclaration(toks, P) ==
    makeNode("VariableDeclarationNode",
        thenConsume(toks,
            thenParseIfMatch(toks,
                thenConsume(toks,
                    thenPeek(toks, thenParse(toks, Parts(<<>>, P), "typeSpecifier")),
                    "IDENTIFIER", "Expected variable name"),
                "OP_EQUALS", "expression"),
            "SEMICOLON", "Expected ';' after variable declaration"))

expressionStatement(toks, P) ==
    makeNode("ExpressionStatementNode",
        thenConsume(toks, thenParse(toks, Parts(<<>>, P), "expression"),
                    "SEMICOLON", "Expected ';' after expression"))

(* consume('('); expression(); consume(')'): the condition of if, while, do *)
parenthesized(toks, r, afterKeyword, afterCondition) ==
    thenConsume(toks,
        thenParse(toks, thenConsume(toks, r, "LEFT_PAREN", afterKeyword), "expression"),
        "RIGHT_PAREN", afterCondition)

ifStatement(toks, P) ==
    makeNode("IfNode",
        thenParseIfMatch(toks,
            thenParse(toks,
                parenthesized(toks, Parts(<<>>, P), "Expected '(' after 'if'",
                              "Expected ')' after if condition"),
                "statement"),
            "KW_ELSE", "statement"))

whileStatement(toks, P) ==
    makeNode("WhileNode",
        thenParse(toks,
            parenthesized(toks, Parts(<<>>, P), "Expected '(' after 'while'",
                          "Expected ')' after while condition"),
            "statement"))

doWhileStatement(toks, P) ==
    makeNode("DoWhileNode",
        thenConsume(toks,
            parenthesized(toks,
                thenConsume(toks, thenParse(toks, Parts(<<>>, P), "statement"),
                            "KW_WHILE", "Expected 'while' after do body"),
                "Expected '(' after 'while'", "Expected ')' after while condition"),
            "SEMICOLON", "Expected ';' after do-while statement"))

forInitializer(toks, r) ==
    IF Thrown(r.P) THEN r
    ELSE IF check(toks, r.P, "SEMICOLON")
    THEN push(r, R(NullNode, consume(toks, r.P, "SEMICOLON", "Expected ';'")))
    ELSE IF isTypeSpecifier(parserPeek(toks, r.P))
    THEN push(r, parseRule(toks, r.P, "variableDeclaration"))
    ELSE push(r, parseRule(toks, r.P, "expressionStatement"))

forStatement(toks, P) ==
    makeNode("ForNode",
        thenParse(toks,
            thenConsume(toks,
                thenParseUnlessCheck(toks,
                    thenConsume(toks,
                        thenParseUnlessCheck(toks,
                            forInitializer(toks,
                                thenConsume(toks, Parts(<<>>, P), "LEFT_PAREN",
                                            "Expected '(' after 'for'")),
                            "SEMICOLON", "expression"),
                        "SEMICOLON", "Expected ';' after for condition"),
                    "RIGHT_PAREN", "expression"),
                "RIGHT_PAREN", "Expected ')' after for clauses"),
            "statement"))

returnStatement(toks, P) ==
    makeNode("ReturnNode",
        thenConsume(toks,
            thenParseUnlessCheck(toks, Parts(<<>>, P), "SEMICOLON", "expression"),
            "SEMICOLON", "Expected ';' after return value"))

breakStatement(toks, P) ==
    makeNode("BreakNode",
        thenConsume(toks, Parts(<<>>, P), "SEMICOLON", "Expected ';' after 'break'"))

continueStatement(toks, P) ==
    makeNode("ContinueNode",
        thenConsume(toks, Parts(<<>>, P), "SEMICOLON", "Expected ';' after 'continue'"))

(* the type of the token match() and check() look at *)
tokenType(toks, P) ==
    IF parserIsAtEnd(toks, P) THEN "END_OF_FILE" ELSE parserPeek(toks, P).type

statement(toks, P) ==
    CASE tokenType(toks, P) = "LEFT_BRACE" -> parseRule(toks, P, "block")
      [] tokenType(toks, P) = "KW_IF" -> ifStatement(toks, parserAdvance(toks, P))
      [] tokenType(toks, P) = "KW_WHILE" -> whileStatement(toks, parserAdvance(toks, P))
      [] tokenType(toks, P) = "KW_DO" -> doWhileStatement(toks, parserAdvance(toks, P))
      [] tokenType(toks, P) = "KW_FOR" -> forStatement(toks, parserAdvance(toks, P))
      [] tokenType(toks, P) = "KW_RETURN" -> returnStatement(toks, parserAdvance(toks, P))
      [] tokenType(toks, P) = "KW_BREAK" -> breakStatement(toks, parserAdvance(toks, P))
      [] tokenType(toks, P) = "KW_CONTINUE" -> continueStatement(toks, parserAdvance(toks, P))
      [] OTHER -> IF isTypeSpecifier(parserPeek(toks, P)) THEN variableDeclaration(toks, P)
                  ELSE expressionStatement(toks, P)

(* try { auto x = rule(); if (x) list.push_back(x); } catch (e) { error(peek()  *)
(* position, e.what()); synchronize(); }: the error consume() or the rule  *)
(* reported before throwing is reported a second time here.                *)
tryAppend(toks, parts, x) ==
    IF Thrown(x.P) THEN Parts(parts, catchAndSynchronize(toks, x.P))
    ELSE Parts(IF x.node.kind # "Null" THEN Append(parts, x.node) ELSE parts, x.P)

(* One turn of the loop of program() or block() went from the state before *)
(* to r.  A turn that consumed no token would be repeated for ever: it is  *)
(* recorded in stalled, and the loops are left once it is set.             *)
turn(before, r) ==
    IF r.P.current > before.current THEN r ELSE [r EXCEPT !.P.stalled = TRUE]

RECURSIVE blockLoop(_, _)
blockLoop(toks, r) ==
    IF Thrown(r.P) \/ r.P.stalled THEN r
    ELSE IF check(toks, r.P, "RIGHT_BRACE") \/ parserIsAtEnd(toks, r.P) THEN r
    ELSE blockLoop(toks,
                   turn(r.P, tryAppend(toks, r.parts, parseRule(toks, r.P, "statement"))))

block(toks, P) ==
    makeNode("BlockNode",
        thenConsume(toks,
            blockLoop(toks, thenConsume(toks, Parts(<<>>, P), "LEFT_BRACE",
                                        "Expected '{' before block")),
            "RIGHT_BRACE", "Expected '}' after block"))

parameterNodeOf(toks, type) ==
    IF Thrown(type.P) THEN type
    ELSE IF check(toks, type.P, "IDENTIFIER")
    THEN R(ParameterNode(type.node, parserPeek(toks, type.P)), parserAdvance(toks, type.P))
    ELSE R(ParameterNode(type.node, Token("IDENTIFIER", <<>>, "", 0, 0)), type.P)

parameter(toks, P) == parameterNodeOf(toks, typeSpecifier(toks, P))

(* the parameters and the body of functionDeclaration() *)
pushList(r, list) == Parts(Append(r.parts, list.parts), list.P)

thenParameters(toks, r) ==
    IF Thrown(r.P) THEN r
    ELSE IF ~check(toks, r.P, "RIGHT_PAREN")
    THEN pushList(r, commaList(toks, Parts(<<>>, r.P), "parameter"))
    ELSE pushList(r, Parts(<<>>, r.P))

thenBody(toks, r) ==
    IF Thrown(r.P) THEN r
    ELSE IF matches(toks, r.P, {"LEFT_BRACE"}) THEN push(r, parseRule(toks, r.P, "block"))
    ELSE push(r, R(NullNode, consume(toks, r.P, "SEMICOLON",
                                     "Expected ';' after function declaration")))

functionDeclaration(toks, P) ==
    makeNode("FunctionDeclarationNode",
        thenBody(toks,
            thenConsume(toks,
                thenParameters(toks,
                    thenConsume(toks,
                        thenConsume(toks,
                            thenPeek(toks, thenParse(toks, Parts(<<>>, P), "typeSpecifier")),
                            "IDENTIFIER", "Expected function name"),
                        "LEFT_PAREN", "Expected '(' after function name")),
                "RIGHT_PAREN", "Expected ')' after parameters")))

(* declaration(): the type is parsed once to look ahead, then current is   *)
(* reset to startPos and the declaration parsed from there.                *)
declarationOf(toks, P, type) ==
    IF Thrown(type.P) THEN type
    ELSE IF check(toks, type.P, "IDENTIFIER")
            /\ type.P.current + 1 < Len(toks)
            /\ toks[type.P.current + 2].type = "LEFT_PAREN"
    THEN functionDeclaration(toks, P)
    ELSE variableDeclaration(toks, P)

declaration(toks, P) ==
    IF isTypeSpecifier(parserPeek(toks, P)) THEN declarationOf(toks, P, typeSpecifier(toks, P))
    ELSE R(NullNode,
           synchronize(toks, [P EXCEPT !.eh = ehError(@, parserPeek(toks, P).line,
                                                      parserPeek(toks, P).column,
                                                      Msg("Unsupported declaration", <<>>))]))

RECURSIVE programLoop(_, _)
programLoop(toks, r) ==
    IF r.P.stalled \/ parserIsAtEnd(toks, r.P) THEN r
    ELSE programLoop(toks, turn(r.P, tryAppend(toks, r.parts, declaration(toks, r.P))))

program(toks, P) == makeNode("ProgramNode", programLoop(toks, Parts(<<>>, P)))

parseRule(toks, P, rule) ==
    CASE rule = "expression" -> expression(toks, P)
      [] rule = "assignment" -> assignment(toks, P)
      [] rule = "conditionalExpr" -> conditionalExpr(toks, P)
      [] rule = "statement" -> statement(toks, P)
      [] rule = "block" -> block(toks, P)
      [] rule = "variableDeclaration" -> variableDeclaration(toks, P)
      [] rule = "expressionStatement" -> expressionStatement(toks, P)
      [] rule = "typeSpecifier" -> typeSpecifier(toks, P)
      [] rule = "parameter" -> parameter(toks, P)

(* parse(): program() catches every exception of the declarations itself,  *)
(* so the catch clause of parse() has nothing to catch.                    *)
parseCatch(r) ==
    IF Thrown(r.P)
    THEN R(NullNode, [r.P EXCEPT !.eh = ehError(@, 0, 0, Msg("Parse error: ", <<r.P.exc>>)),
                                 !.exc = ""])
    ELSE r

parse(toks, eh) == parseCatch(program(toks, ParserInit(eh)))

-----------------------------------------------------------------------------
(* TypeInfo (semantic.h).  base is a unique_ptr: a sequence of zero or one *)
(* TypeInfo.                                                               *)

TypeInfo(kind, isConst, isVolatile, size) ==
    [kind |-> kind, isConst |-> isConst, isVolatile |-> isVolatile, size |-> size,
     base |-> <<>>, parameters |-> <<>>]

createVoid == TypeInfo("VOID", FALSE, FALSE, 0)
createChar == TypeInfo("CHAR", FALSE, FALSE, 1)
createInt == TypeInfo("INT", FALSE, FALSE, 4)
createFloat == TypeInfo("FLOAT", FALSE, FALSE, 4)
createDouble == TypeInfo("DOUBLE", FALSE, FALSE, 8)

createPointer(baseType) ==
    [TypeInfo("POINTER", FALSE, FALSE, 8) EXCEPT !.base = <<baseType>>]

createArray(elementType, size) ==
    [TypeInfo("ARRAY", FALSE, FALSE, elementType.size * size) EXCEPT !.base = <<elementType>>]

createFunction(returnType, paramTypes) ==
    [TypeInfo("FUNCTION", FALSE, FALSE, 0) EXCEPT !.base = <<returnType>>,
                                                   !.parameters = paramTypes]

isNumeric(t) == t.kind \in {"CHAR", "INT", "FLOAT", "DOUBLE"}
isScalar(t) == isNumeric(t) \/ t.kind = "POINTER"
isInteger(t) == t.kind \in {"CHAR", "INT"}
isFloatingPoint(t) == t.kind \in {"FLOAT", "DOUBLE"}

(* the rule without the base types of pointers, arrays and functions *)
compatibleKinds(src, target) ==
    \/ src.kind = target.kind
    \/ src.kind = "CHAR" /\ target.kind = "INT"
    \/ src.kind = "FLOAT" /\ target.kind = "DOUBLE"
    \/ isInteger(src) /\ isFloatingPoint(target)
    \/ src.kind = "ARRAY" /\ target.kind = "POINTER"

RECURSIVE areTypesCompatible(_, _)
areTypesCompatible(src, target) ==
    IF src.kind = target.kind
    THEN IF src.kind \in {"ARRAY", "POINTER", "FUNCTION"}
         THEN areTypesCompatible(src.base[1], target.base[1])
         ELSE TRUE
    ELSE \/ src.kind = "CHAR" /\ target.kind = "INT"
         \/ src.kind = "FLOAT" /\ target.kind = "DOUBLE"
         \/ isInteger(src) /\ isFloatingPoint(target)
         \/ /\ src.kind = "ARRAY" /\ target.kind = "POINTER"
            /\ areTypesCompatible(src.base[1], target.base[1])

getCommonType(a, b) ==
    IF a.kind = b.kind THEN a
    ELSE IF a.kind = "DOUBLE" \/ b.kind = "DOUBLE" THEN createDouble
    ELSE IF a.kind = "FLOAT" \/ b.kind = "FLOAT" THEN createFloat
    ELSE IF isInteger(a) /\ isInteger(b) THEN (IF a.size >= b.size THEN a ELSE b)
    ELSE a

-----------------------------------------------------------------------------
(* SymbolTable (semantic.cpp).  scopes is the vector of maps, a scope a    *)
(* function from names to SymbolInfo; currentScope is 0-based.             *)

SymbolInfo(kind, type, name, scopeLevel) ==
    [kind |-> kind, type |-> type, name |-> name, scopeLevel |-> scopeLevel]

EmptyScope == [n \in {} |-> 0]

SymbolTableInit == [scopes |-> <<EmptyScope>>, currentScope |-> 0]

mapPut(map, name, info) ==
    [n \in DOMAIN map \cup {name} |-> IF n = name THEN info ELSE map[n]]

(* enterScope(): a map is pushed only when the vector has none at the new  *)
(* level; leaveScope() only decrements currentScope, so the map of a scope *)
(* that was left stays in the vector and is the map of the next scope      *)
(* entered at that level.                                                  *)
enterScope(T) ==
    [scopes |-> IF T.currentScope + 1 >= Len(T.scopes)
                THEN Append(T.scopes, EmptyScope) ELSE T.scopes,
     currentScope |-> T.currentScope + 1]

leaveScope(T) == [T EXCEPT !.currentScope = @ - 1]

addSymbol(T, level, kind, name, type) ==
    [T EXCEPT !.scopes[level + 1] = mapPut(@, name, SymbolInfo(kind, type, name, level))]

addVariable(T, name, type) == addSymbol(T, T.currentScope, "VARIABLE", name, type)
addFunction(T, name, type) == addSymbol(T, 0, "FUNCTION", name, type)
addParameter(T, name, type) == addSymbol(T, T.currentScope, "PARAMETER", name, type)

existsInCurrentScope(T, name) == name \in DOMAIN T.scopes[T.currentScope + 1]

(* lookup(): the levels that hold the name, from currentScope down to 0;   *)
(* the sequence is empty for nullptr.                                      *)
lookupLevels(T, name) == {i \in 0..T.currentScope : name \in DOMAIN T.scopes[i + 1]}

lookup(T, name) ==
    IF lookupLevels(T, name) = {} THEN <<>>
    ELSE <<T.scopes[(CHOOSE i \in lookupLevels(T, name) :
                        \A j \in lookupLevels(T, name) : j <= i) + 1][name]>>

(* The scopes as the language defines them, kept beside the table as a     *)
(* history: a scope entered is empty, a scope left is gone.                *)
properEnter(T) ==
    [scopes |-> Append(SubSeq(T.scopes, 1, T.currentScope + 1), EmptyScope),
     currentScope |-> T.currentScope + 1]

properLeave(T) ==
    [scopes |-> SubSeq(T.scopes, 1, T.currentScope), currentScope |-> T.currentScope - 1]

-----------------------------------------------------------------------------
(* SemanticAnalyzer (semantic.cpp).  The analyzer state S holds the error  *)
(* handler, the symbol table, currentFunctionReturnType (a sequence, empty *)
(* for nullptr) and hasReturn.  types is the stack of the TypeInfo values  *)
(* the visit functions hold in local variables: a visit of an expression   *)
(* pushes its result.  proper and events are history: the scopes as the    *)
(* language defines them, and what each declaration and use found.         *)

SemanticInit(eh) ==
    [eh |-> eh, table |-> SymbolTableInit, currentFunctionReturnType |-> <<>>,
     hasReturn |-> FALSE, types |-> <<>>, proper |-> SymbolTableInit, events |-> <<>>]

(* The statements of a loop run one after the other: the state a turn of  *)
(* the loop starts from is the state the turn before has left, a table    *)
(* with its current scope.                                                *)
sequenced(S) == S.table.currentScope \in Nat

semError(S, line, column, message) == [S EXCEPT !.eh = ehError(@, line, column, message)]

top(S) == S.types[Len(S.types)]
under(S) == S.types[Len(S.types) - 1]
pushType(S, t) == [S EXCEPT !.types = Append(@, t)]
popTypes(S, n) == [S EXCEPT !.types = SubSeq(@, 1, Len(@) - n)]
result(S, n, t) == pushType(popTypes(S, n), t)
resultError(S, n, line, column, message) ==
    result(semError(S, line, column, message), n, createVoid)

semEnter(S) == [S EXCEPT !.table = enterScope(@), !.proper = properEnter(@)]
semLeave(S) == [S EXCEPT !.table = leaveScope(@), !.proper = properLeave(@)]

declare(S, kind, level, name, type) ==
    [S EXCEPT !.table = addSymbol(@, level, kind, name, type),
              !.proper = addSymbol(@, level, kind, name, type)]

BaseTypes ==
    [KW_VOID |-> createVoid, KW_CHAR |-> createChar, KW_INT |-> createInt,
     KW_FLOAT |-> createFloat, KW_DOUBLE |-> createDouble]

RECURSIVE pointers(_, _)
pointers(t, n) == IF n <= 0 THEN t ELSE pointers(createPointer(t), n - 1)

typeOfTypeNode(node) ==
    pointers([(IF node.name.type \in DOMAIN BaseTypes THEN BaseTypes[node.name.type]
               ELSE createVoid)
                 EXCEPT !.isConst = node.isConst, !.isVolatile = node.isVolatile],
             IF node.isPointer THEN node.pointerLevel ELSE 0)

getTypeFromTypeNode(node, S) ==
    pushType(IF node.name.type \in DOMAIN BaseTypes THEN S
             ELSE semError(S, node.name.line, node.name.column,
                           Msg("Unknown type: ", node.name.lexeme)),
             typeOfTypeNode(node))

RECURSIVE visitExpression(_, _)

visitLiteral(node, S) ==
    CASE node.token.type = "INTEGER_LITERAL" -> pushType(S, createInt)
      [] node.token.type = "FLOAT_LITERAL" -> pushType(S, createFloat)
      [] node.token.type = "CHAR_LITERAL" -> pushType(S, createChar)
      [] node.token.type = "STRING_LITERAL" ->
            pushType(S, createArray(createChar, Len(node.token.lexeme) - 2 + 1))
      [] OTHER -> resultError(S, 0, node.token.line, node.token.column,
                              Msg("Unknown literal type", <<>>))

useEvent(S, name) ==
    [S EXCEPT !.events = Append(@, [kind |-> "use", name |-> name,
                                    found |-> lookup(S.table, name),
                                    proper |-> lookup(S.proper, name)])]

visitVariable(node, S) ==
    IF lookup(S.table, node.name.lexeme) = <<>>
    THEN resultError(useEvent(S, node.name.lexeme), 0, node.name.line, node.name.column,
                     Msg("Undefined variable", node.name.lexeme))
    ELSE pushType(useEvent(S, node.name.lexeme), lookup(S.table, node.name.lexeme)[1].type)

(* the type visitUnary() returns, the empty sequence where it reports *)
unaryType(op, t) ==
    CASE op \in {"OP_MINUS", "OP_PLUS"} -> IF isNumeric(t) THEN <<t>> ELSE <<>>
      [] op = "OP_EXCLAMATION" -> IF isScalar(t) THEN <<createInt>> ELSE <<>>
      [] op = "OP_TILDE" -> IF isInteger(t) THEN <<t>> ELSE <<>>
      [] op = "OP_STAR" -> IF t.kind = "POINTER" THEN <<t.base[1]>> ELSE <<>>
      [] op = "OP_AMPERSAND" -> <<createPointer(t)>>
      [] op \in {"OP_PLUS_PLUS", "OP_MINUS_MINUS"} ->
            IF isNumeric(t) \/ t.kind = "POINTER" THEN <<t>> ELSE <<>>
      [] OTHER -> <<>>

unaryMessage(op) ==
    CASE op.type \in {"OP_MINUS", "OP_PLUS"} ->
            Msg("Unary operator requires numeric operand", op.lexeme)
      [] op.type = "OP_EXCLAMATION" -> Msg("Unary operator ! requires scalar operand", <<>>)
      [] op.type = "OP_TILDE" -> Msg("Unary operator ~ requires integer operand", <<>>)
      [] op.type = "OP_STAR" -> Msg("Cannot dereference non-pointer type", <<>>)
      [] op.type \in {"OP_PLUS_PLUS", "OP_MINUS_MINUS"} ->
            Msg("Unary operator requires numeric or pointer operand", op.lexeme)
      [] OTHER -> Msg("Unknown unary operator: ", op.lexeme)

unaryResult(node, S) ==
    IF unaryType(node.op.type, top(S)) = <<>>
    THEN resultError(S, 1, node.op.line, node.op.column, unaryMessage(node.op))
    ELSE result(S, 1, unaryType(node.op.type, top(S))[1])

visitUnary(node, S) == unaryResult(node, visitExpression(node.operand, S))

(* the type visitBinary() returns, the empty sequence where it reports *)
binaryType(op, l, r) ==
    CASE op = "OP_PLUS" ->
            IF l.kind = "POINTER" /\ isInteger(r) THEN <<l>>
            ELSE IF isInteger(l) /\ r.kind = "POINTER" THEN <<r>>
            ELSE IF isNumeric(l) /\ isNumeric(r) THEN <<getCommonType(l, r)>>
            ELSE <<>>
      [] op = "OP_MINUS" ->
            IF l.kind = "POINTER" /\ isInteger(r) THEN <<l>>
            ELSE IF l.kind = "POINTER" /\ r.kind = "POINTER" THEN <<createInt>>
            ELSE IF isNumeric(l) /\ isNumeric(r) THEN <<getCommonType(l, r)>>
            ELSE <<>>
      [] op \in {"OP_STAR", "OP_SLASH", "OP_PERCENT"} ->
            IF isNumeric(l) /\ isNumeric(r) THEN <<getCommonType(l, r)>> ELSE <<>>
      [] op \in {"OP_LESS", "OP_LESS_EQUALS", "OP_GREATER", "OP_GREATER_EQUALS",
                 "OP_EQUALS_EQUALS", "OP_NOT_EQUALS"} ->
            IF ~areTypesCompatible(l, r) /\ ~areTypesCompatible(r, l) THEN <<>>
            ELSE <<createInt>>
      [] op \in {"OP_AMPERSAND", "OP_PIPE", "OP_CARET", "OP_SHL", "OP_SHR"} ->
            IF ~isInteger(l) \/ ~isInteger(r) THEN <<>> ELSE <<getCommonType(l, r)>>
      [] op \in {"OP_LOGICAL_AND", "OP_LOGICAL_OR"} ->
            IF ~isScalar(l) \/ ~isScalar(r) THEN <<>> ELSE <<createInt>>
      [] op = "OP_EQUALS" -> IF ~areTypesCompatible(r, l) THEN <<>> ELSE <<l>>
      [] OTHER -> <<>>

binaryMessage(op) ==
    CASE op.type \in {"OP_PLUS", "OP_MINUS", "OP_STAR", "OP_SLASH", "OP_PERCENT"} ->
            Msg("Invalid operands to binary ", op.lexeme)
      [] op.type \in {"OP_LESS", "OP_LESS_EQUALS", "OP_GREATER", "OP_GREATER_EQUALS",
                      "OP_EQUALS_EQUALS", "OP_NOT_EQUALS"} ->
            Msg("Incompatible types for comparison", <<>>)
      [] op.type \in {"OP_AMPERSAND", "OP_PIPE", "OP_CARET", "OP_SHL", "OP_SHR"} ->
            Msg("Bitwise operators require integer operands", <<>>)
      [] op.type \in {"OP_LOGICAL_AND", "OP_LOGICAL_OR"} ->
            Msg("Logical operators require scalar operands", <<>>)
      [] op.type = "OP_EQUALS" -> Msg("Cannot assign incompatible type", <<>>)
      [] OTHER -> Msg("Unknown binary operator: ", op.lexeme)

binaryResult(node, S) ==
    IF binaryType(node.op.type, under(S), top(S)) = <<>>
    THEN resultError(S, 2, node.op.line, node.op.column, binaryMessage(node.op))
    ELSE result(S, 2, binaryType(node.op.type, under(S), top(S))[1])

visitBinary(node, S) ==
    binaryResult(node, visitExpression(node.right, visitExpression(node.left, S)))

(* visitCall(): the callee's type stays under the argument being checked *)
checkArgument(i, S) ==
    popTypes(IF areTypesCompatible(top(S), under(S).parameters[i]) THEN S
             ELSE semError(S, 0, 0, Msg("Argument type mismatch in function call", <<>>)),
             1)

RECURSIVE visitArguments(_, _, _)
visitArguments(arguments, i, S) ==
    IF ~sequenced(S) \/ i > Len(arguments) THEN S
    ELSE visitArguments(arguments, i + 1, checkArgument(i, visitExpression(arguments[i], S)))

callResult(node, S) ==
    IF top(S).kind # "FUNCTION"
    THEN resultError(S, 1, 0, 0, Msg("Called object is not a function", <<>>))
    ELSE IF Len(node.arguments) # Len(top(S).parameters)
    THEN resultError(S, 1, 0, 0, Msg("Wrong number of arguments to function call", <<>>))
    ELSE result(visitArguments(node.arguments, 1, S), 1, top(S).base[1])

visitCall(node, S) == callResult(node, visitExpression(node.callee, S))

arrayResult(S) ==
    IF under(S).kind \notin {"ARRAY", "POINTER"}
    THEN resultError(S, 2, 0, 0, Msg("Subscripted value is not an array or pointer", <<>>))
    ELSE IF ~isInteger(top(S))
    THEN resultError(S, 2, 0, 0, Msg("Array index must be an integer", <<>>))
    ELSE result(S, 2, under(S).base[1])

visitArrayAccess(node, S) ==
    arrayResult(visitExpression(node.index, visitExpression(node.array, S)))

memberResult(node, S) ==
    IF node.op.type = "OP_DOT" /\ top(S).kind # "STRUCT"
    THEN resultError(S, 1, node.op.line, node.op.column,
                     Msg("Left operand of '.' must be a struct", <<>>))
    ELSE IF /\ node.op.type = "OP_ARROW"
            /\ \/ top(S).kind # "POINTER"
               \/ top(S).base # <<>> /\ top(S).base[1].kind # "STRUCT"
    THEN resultError(S, 1, node.op.line, node.op.column,
                     Msg("Left operand of '->' must be a pointer to a struct", <<>>))
    ELSE result([S EXCEPT !.eh = ehWarning(@, node.op.line, node.op.column,
                                 Msg("Struct member access not fully implemented", <<>>))],
                1, createInt)

visitMemberAccess(node, S) == memberResult(node, visitExpression(node.object, S))

conditionalType(S) ==
    IF areTypesCompatible(under(S), top(S)) THEN result(S, 3, under(S))
    ELSE IF areTypesCompatible(top(S), under(S)) THEN result(S, 3, top(S))
    ELSE resultError(S, 3, 0, 0, Msg("Incompatible types in conditional expression", <<>>))

conditionalResult(node, S) ==
    IF ~isScalar(top(S))
    THEN resultError(S, 1, 0, 0, Msg("Conditional operator requires scalar condition", <<>>))
    ELSE conditionalType(visitExpression(node.falseExpr, visitExpression(node.trueExpr, S)))

visitConditional(node, S) == conditionalResult(node, visitExpression(node.condition, S))

visitExpression(node, S) ==
    CASE node.kind = "Null" -> pushType(S, createVoid)
      [] node.kind = "LiteralNode" -> visitLiteral(node, S)
      [] node.kind = "VariableNode" -> visitVariable(node, S)
      [] node.kind = "UnaryNode" -> visitUnary(node, S)
      [] node.kind = "BinaryNode" -> visitBinary(node, S)
      [] node.kind = "CallNode" -> visitCall(node, S)
      [] node.kind = "ArrayAccessNode" -> visitArrayAccess(node, S)
      [] node.kind = "MemberAccessNode" -> visitMemberAccess(node, S)
      [] node.kind = "ConditionalNode" -> visitConditional(node, S)
      [] OTHER -> resultError(S, 0, 0, 0, Msg("Unknown expression type: ", <<node.kind>>))

visitExpressionStatement(node, S) == popTypes(visitExpression(node.expression, S), 1)

(* visitVariableDeclaration(): the type is on the stack while the          *)
(* initializer is visited; the name is added after the initializer.        *)
declareEvent(S, name) ==
    [S EXCEPT !.events = Append(@, [kind |-> "declare", name |-> name,
                                    found |-> existsInCurrentScope(S.table, name),
                                    proper |-> existsInCurrentScope(S.proper, name)])]

checkInitializer(node, S) ==
    popTypes(IF areTypesCompatible(top(S), under(S)) THEN S
             ELSE semError(S, node.name.line, node.name.column,
                           Msg("Cannot initialize variable", <<under(S).kind, top(S).kind>>)),
             1)

addDeclared(node, S) ==
    popTypes(declare(S, "VARIABLE", S.table.currentScope, node.name.lexeme, top(S)), 1)

variableDeclarationOf(node, S) ==
    IF existsInCurrentScope(S.table, node.name.lexeme)
    THEN popTypes(semError(S, node.name.line, node.name.column,
                           Msg("Variable already declared in this scope", node.name.lexeme)),
                  1)
    ELSE IF node.initializer.kind # "Null"
    THEN addDeclared(node, checkInitializer(node, visitExpression(node.initializer, S)))
    ELSE addDeclared(node, S)

visitVariableDeclaration(node, S) ==
    variableDeclarationOf(node, declareEvent(getTypeFromTypeNode(node.type, S),
                                             node.name.lexeme))

parameterOf(node, S) ==
    IF node.name.lexeme = <<>> THEN popTypes(S, 1)
    ELSE IF existsInCurrentScope(S.table, node.name.lexeme)
    THEN popTypes(semError(S, node.name.line, node.name.column,
                           Msg("Parameter already declared", node.name.lexeme)), 1)
    ELSE popTypes(declare(S, "PARAMETER", S.table.currentScope, node.name.lexeme, top(S)), 1)

visitParameter(node, S) == parameterOf(node, getTypeFromTypeNode(node.type, S))

RECURSIVE visitStatement(_, _)

RECURSIVE visitStatements(_, _, _)
visitStatements(statements, i, S) ==
    IF ~sequenced(S) \/ i > Len(statements) THEN S
    ELSE visitStatements(statements, i + 1, visitStatement(statements[i], S))

visitBlock(node, S) == semLeave(visitStatements(node.statements, 1, semEnter(S)))

(* the body of if, else, while, do and for: a block, or a statement in an  *)
(* implicit scope                                                          *)
visitBody(node, S) ==
    IF node.kind = "BlockNode" THEN visitBlock(node, S)
    ELSE semLeave(visitStatement(node, semEnter(S)))

checkCondition(S, message) ==
    popTypes(IF isScalar(top(S)) THEN S ELSE semError(S, 0, 0, Msg(message, <<>>)), 1)

visitElse(node, S) ==
    IF node.elseBranch.kind = "Null" THEN S ELSE visitBody(node.elseBranch, S)

visitIfStatement(node, S) ==
    visitElse(node,
        visitBody(node.thenBranch,
            checkCondition(visitExpression(node.condition, S),
                           "If condition must be a scalar type")))

visitWhileStatement(node, S) ==
    visitBody(node.body,
        checkCondition(visitExpression(node.condition, S),
                       "While condition must be a scalar type"))

visitDoWhileStatement(node, S) ==
    checkCondition(visitExpression(node.condition, visitBody(node.body, S)),
                   "Do-while condition must be a scalar type")

forInitializerOf(node, S) ==
    IF node.initializer.kind \in {"ExpressionStatementNode", "VariableDeclarationNode"}
    THEN visitStatement(node.initializer, S)
    ELSE S

forCondition(node, S) ==
    IF node.condition.kind = "Null" THEN S
    ELSE checkCondition(visitExpression(node.condition, S),
                        "For condition must be a scalar type")

forIncrement(node, S) ==
    IF node.increment.kind = "Null" THEN S
    ELSE popTypes(visitExpression(node.increment, S), 1)

visitForStatement(node, S) ==
    semLeave(visitBody(node.body,
        forIncrement(node, forCondition(node, forInitializerOf(node, semEnter(S))))))

checkReturn(S) ==
    popTypes(IF areTypesCompatible(top(S), S.currentFunctionReturnType[1]) THEN S
             ELSE semError(S, 0, 0, Msg("Cannot return value of incompatible type", <<>>)),
             1)

visitReturnStatement(node, S) ==
    IF S.currentFunctionReturnType = <<>>
    THEN semError(S, 0, 0, Msg("Return statement outside of function", <<>>))
    ELSE IF node.value.kind # "Null"
    THEN checkReturn(visitExpression(node.value, [S EXCEPT !.hasReturn = TRUE]))
    ELSE IF S.currentFunctionReturnType[1].kind # "VOID"
    THEN semError([S EXCEPT !.hasReturn = TRUE], 0, 0,
                  Msg("Non-void function should return a value", <<>>))
    ELSE [S EXCEPT !.hasReturn = TRUE]

(* the chain of getNodeType() comparisons in visitBlock() and in the       *)
(* implicit scopes; break and continue are not checked                     *)
visitStatement(node, S) ==
    CASE node.kind = "ExpressionStatementNode" -> visitExpressionStatement(node, S)
      [] node.kind = "VariableDeclarationNode" -> visitVariableDeclaration(node, S)
      [] node.kind = "BlockNode" -> visitBlock(node, S)
      [] node.kind = "IfNode" -> visitIfStatement(node, S)
      [] node.kind = "WhileNode" -> visitWhileStatement(node, S)
      [] node.kind = "DoWhileNode" -> visitDoWhileStatement(node, S)
      [] node.kind = "ForNode" -> visitForStatement(node, S)
      [] node.kind = "ReturnNode" -> visitReturnStatement(node, S)
      [] OTHER -> S

(* visitFunctionDeclaration(): returnType and the paramTypes are on the    *)
(* stack; returnType stays there while the body is visited.                *)
RECURSIVE paramTypes(_, _, _)
paramTypes(parameters, i, S) ==
    IF ~sequenced(S) \/ i > Len(parameters) THEN S
    ELSE paramTypes(parameters, i + 1, getTypeFromTypeNode(parameters[i].type, S))

functionType(S, n) ==
    createFunction(S.types[Len(S.types) - n],
                   SubSeq(S.types, Len(S.types) - n + 1, Len(S.types)))

RECURSIVE visitParameters(_, _, _)
visitParameters(parameters, i, S) ==
    IF ~sequenced(S) \/ i > Len(parameters) THEN S
    ELSE visitParameters(parameters, i + 1, visitParameter(parameters[i], S))

(* the end of a function without the check of hasReturn *)
functionEndUnchecked(node, S) ==
    popTypes(semLeave([S EXCEPT !.currentFunctionReturnType = <<>>]), 1)

functionEnd(node, S) ==
    popTypes(semLeave([(IF ~S.hasReturn /\ top(S).kind # "VOID"
                        THEN semError(S, node.name.line, node.name.column,
                                      Msg("Function may not return a value", node.name.lexeme))
                        ELSE S)
                          EXCEPT !.currentFunctionReturnType = <<>>]),
             1)

functionBody(node, S) ==
    IF node.body.kind = "Null" THEN popTypes(S, 1)
    ELSE functionEnd(node,
            visitBlock(node.body,
                visitParameters(node.parameters, 1,
                    [semEnter(S) EXCEPT !.currentFunctionReturnType = <<top(S)>>,
                                        !.hasReturn = (top(S).kind = "VOID")])))

functionDeclared(node, S, n) ==
    IF existsInCurrentScope(S.table, node.name.lexeme)
    THEN popTypes(semError(S, node.name.line, node.name.column,
                           Msg("Function already declared in this scope", node.name.lexeme)),
                  n + 1)
    ELSE functionBody(node,
            popTypes(declare(S, "FUNCTION", 0, node.name.lexeme, functionType(S, n)), n))

visitFunctionDeclaration(node, S) ==
    functionDeclared(node,
        paramTypes(node.parameters, 1, getTypeFromTypeNode(node.returnType, S)),
        Len(node.parameters))

visitDeclaration(node, S) ==
    CASE node.kind = "FunctionDeclarationNode" -> visitFunctionDeclaration(node, S)
      [] node.kind = "VariableDeclarationNode" -> visitVariableDeclaration(node, S)
      [] OTHER -> S

RECURSIVE visitDeclarations(_, _, _)
visitDeclarations(declarations, i, S) ==
    IF ~sequenced(S) \/ i > Len(declarations) THEN S
    ELSE visitDeclarations(declarations, i + 1, visitDeclaration(declarations[i], S))

visitProgram(node, S) == visitDeclarations(node.declarations, 1, S)

(* analyze(): symbolTable.clear() leaves the table as constructed *)
analyze(root, eh) ==
    IF root.kind = "Null" THEN SemanticInit(eh)
    ELSE IF root.kind = "ProgramNode" THEN visitProgram(root, SemanticInit(eh))
    ELSE semError(SemanticInit(eh), 0, 0, Msg("Expected program node as root", <<>>))

-----------------------------------------------------------------------------
(* CodeGenerator (codegen.cpp).  The generator state G holds the error     *)
(* handler, the instructions of the .text section and the symbols of the   *)
(* CoilObject, the variables map, nextVarId, scopeStack, currentFunction   *)
(* and labelCounter.  ids is the stack of the variable ids and label       *)
(* numbers the generate functions hold in local variables: generating an   *)
(* expression pushes the id it returns.  exc is the exception in flight,   *)
(* "" for none; once it is thrown nothing more is done.                    *)

UINT16_MAX == 65535
INT_MAX == 2147483647

Instruction(opcode, operands) == [opcode |-> opcode, operands |-> operands]
createImmediate(value) == [kind |-> "immediate", value |-> value]
createVariable(varId) == [kind |-> "variable", value |-> varId]
createSymbol(index) == [kind |-> "symbol", value |-> index]
(* an immediate that holds a coil::Type value, by the name of the value *)
createType(name) == [kind |-> "type", name |-> name]

CodeGeneratorInit(eh) ==
    [eh |-> eh, text |-> <<>>, symbols |-> <<>>, variables |-> EmptyScope, nextVarId |-> 1,
     scopeStack |-> <<>>, currentFunction |-> <<>>, labelCounter |-> 0, ids |-> <<>>,
     exc |-> ""]

cgThrow(G, what) == IF G.exc # "" THEN G ELSE [G EXCEPT !.exc = what]

cgError(G, line, column, message) ==
    IF G.exc # "" THEN G ELSE [G EXCEPT !.eh = ehError(@, line, column, message)]

cgWarning(G, line, column, message) ==
    IF G.exc # "" THEN G ELSE [G EXCEPT !.eh = ehWarning(@, line, column, message)]

emitInstruction(G, opcode, operands) ==
    IF G.exc # "" THEN G ELSE [G EXCEPT !.text = Append(@, Instruction(opcode, operands))]

pushId(G, id) == IF G.exc # "" THEN G ELSE [G EXCEPT !.ids = Append(@, id)]
popIds(G, n) == IF G.exc # "" THEN G ELSE [G EXCEPT !.ids = SubSeq(@, 1, Len(@) - n)]
(* the k-th id from the top of the stack, 0 for the top; 0 after a throw *)
idAt(G, k) == IF G.exc # "" THEN 0 ELSE G.ids[Len(G.ids) - k]
returnId(G, n, id) == pushId(popIds(G, n), id)

(* getNextVarId(): nextVarId++ in 16 bits; the id taken is lastVarId *)
getNextVarId(G) == IF G.exc # "" THEN G ELSE [G EXCEPT !.nextVarId = (@ + 1) % (UINT16_MAX + 1)]
lastVarId(G) == (G.nextVarId + UINT16_MAX) % (UINT16_MAX + 1)

(* CoilObject::findSymbol and CodeGenerator::addSymbol *)
findSymbol(symbols, name) ==
    IF \E k \in 1..Len(symbols) : symbols[k].name = name
    THEN (CHOOSE k \in 1..Len(symbols) :
             /\ symbols[k].name = name
             /\ \A j \in 1..(k - 1) : symbols[j].name # name) - 1
    ELSE UINT16_MAX

cgAddSymbol(G, name, attributes, sectionIndex) ==
    IF G.exc # "" \/ findSymbol(G.symbols, name) # UINT16_MAX THEN G
    ELSE [G EXCEPT !.symbols = Append(@, [name |-> name, attributes |-> attributes,
                                          section_index |-> sectionIndex])]

(* an instruction whose first operand is the symbol of name, added before *)
emitWithSymbol(G, opcode, name, rest) ==
    emitInstruction(G, opcode, <<createSymbol(findSymbol(G.symbols, name))>> \o rest)

emitLabel(G, label) ==
    emitWithSymbol(cgAddSymbol(G, label, "", "textSectionIndex"), "SYM", label, <<>>)
emitJump(G, label) == emitWithSymbol(cgAddSymbol(G, label, "", "0"), "BR", label, <<>>)

emitVarDeclaration(G, varId, type, initializer) ==
    emitInstruction(G, "VAR",
        <<createVariable(varId), createType(type)>>
            \o (IF initializer # 0 THEN <<createVariable(initializer)>> ELSE <<>>))

emitCompare(G, condVarId) ==
    emitInstruction(G, "CMP", <<createVariable(condVarId), createImmediate(0)>>)

(* initialize(): the three sections with their symbols, and PROC *)
initialize(G) ==
    emitInstruction(
        cgAddSymbol(cgAddSymbol(cgAddSymbol(G, <<".", "t", "e", "x", "t">>, "GLOBAL", "0"),
                                <<".", "d", "a", "t", "a">>, "GLOBAL", "0"),
                    <<".", "b", "s", "s">>, "GLOBAL", "0"),
        "PROC", <<createImmediate(1)>>)

(* generateLabel(): prefix, '_' and the decimal digits of labelCounter++ *)
RECURSIVE decimal(_)
decimal(n) ==
    IF n < 10 THEN <<SubSeq(<<"0", "1", "2", "3", "4", "5", "6", "7", "8", "9">>, n + 1, n + 1)[1]>>
    ELSE decimal(n \div 10) \o decimal(n % 10)

LabelPrefixes ==
    [else |-> <<"e", "l", "s", "e">>, endif |-> <<"e", "n", "d", "i", "f">>,
     while_start |-> <<"w", "h", "i", "l", "e", "_", "s", "t", "a", "r", "t">>, while_end |-> <<"w", "h", "i", "l", "e", "_", "e", "n", "d">>,
     dowhile_start |-> <<"d", "o", "w", "h", "i", "l", "e", "_", "s", "t", "a", "r", "t">>,
     dowhile_condition |-> <<"d", "o", "w", "h", "i", "l", "e", "_", "c", "o", "n", "d", "i", "t", "i", "o", "n">>,
     dowhile_end |-> <<"d", "o", "w", "h", "i", "l", "e", "_", "e", "n", "d">>,
     for_start |-> <<"f", "o", "r", "_", "s", "t", "a", "r", "t">>, for_increment |-> <<"f", "o", "r", "_", "i", "n", "c", "r", "e", "m", "e", "n", "t">>,
     for_end |-> <<"f", "o", "r", "_", "e", "n", "d">>,
     cond_false |-> <<"c", "o", "n", "d", "_", "f", "a", "l", "s", "e">>, cond_end |-> <<"c", "o", "n", "d", "_", "e", "n", "d">>]

generateLabel(prefix, n) == LabelPrefixes[prefix] \o <<"_">> \o decimal(n)

(* n labels generated: their numbers start at the value pushed *)
generateLabels(G, n) ==
    IF G.exc # "" THEN G
    ELSE [pushId(G, G.labelCounter) EXCEPT !.labelCounter = @ + n]

cgEnterScope(G) == IF G.exc # "" THEN G ELSE [G EXCEPT !.scopeStack = Append(@, <<>>)]

topScope(G) == G.scopeStack[Len(G.scopeStack)]

cgLeaveScope(G) ==
    IF G.exc # "" \/ G.scopeStack = <<>> THEN G
    ELSE [G EXCEPT
            !.variables = [n \in DOMAIN @ \ {topScope(G)[k] : k \in 1..Len(topScope(G))}
                              |-> @[n]],
            !.scopeStack = SubSeq(@, 1, Len(@) - 1)]

(* variables[name] = Variable(name, varId, type); scopeStack.top().push_back(name) *)
addLocal(G, name, varId, type) ==
    IF G.exc # "" THEN G
    ELSE [G EXCEPT !.variables = mapPut(@, name, [name |-> name, varId |-> varId, type |-> type]),
                   !.scopeStack[Len(G.scopeStack)] = Append(@, name)]

coilType(typeNode) ==
    CASE typeNode.name.type = "KW_INT" -> IF typeNode.isPointer THEN "PTR" ELSE "INT32"
      [] typeNode.name.type = "KW_CHAR" -> IF typeNode.isPointer THEN "PTR" ELSE "INT8"
      [] typeNode.name.type = "KW_FLOAT" -> "FP32"
      [] typeNode.name.type = "KW_DOUBLE" -> "FP64"
      [] typeNode.name.type = "KW_VOID" -> IF typeNode.isPointer THEN "PTR" ELSE "VOID"
      [] OTHER -> "INT32"

translateType(G, typeNode) ==
    IF typeNode.name.type \in {"KW_INT", "KW_CHAR", "KW_FLOAT", "KW_DOUBLE", "KW_VOID"} THEN G
    ELSE cgWarning(G, typeNode.name.line, typeNode.name.column,
                   Msg("Unknown type, defaulting to int", typeNode.name.lexeme))

(* std::stoi on a lexeme: whitespace is skipped, a sign and decimal digits *)
(* are read; no digit is std::invalid_argument, a value above INT_MAX is   *)
(* std::out_of_range.  The result is a sequence: the value, or empty.      *)
RECURSIVE stoiSpace(_, _)
stoiSpace(text, i) ==
    IF i <= Len(text) /\ text[i] \in {" ", "\t", "\n", "\r"} THEN stoiSpace(text, i + 1) ELSE i

digitValue(c) == CHOOSE d \in 0..9 : decimal(d) = <<c>>

RECURSIVE stoiDigits(_, _, _)
stoiDigits(text, i, value) ==
    IF i <= Len(text) /\ isdigit(text[i]) /\ value <= INT_MAX
    THEN stoiDigits(text, i + 1, 10 * value + digitValue(text[i]))
    ELSE value

stoiSigned(text, i) ==
    IF i <= Len(text) /\ text[i] \in {"+", "-"}
    THEN IF i + 1 <= Len(text) /\ isdigit(text[i + 1])
         THEN <<(IF text[i] = "-" THEN -1 ELSE 1) * stoiDigits(text, i + 1, 0)>>
         ELSE <<>>
    ELSE IF i <= Len(text) /\ isdigit(text[i]) THEN <<stoiDigits(text, i, 0)>>
    ELSE <<>>

stoi(text) == stoiSigned(text, stoiSpace(text, 1))

(* std::stof converts when a number starts the text after the whitespace;  *)
(* the value is kept as the text of the lexeme.                            *)
stofConverts(text, i) ==
    /\ i <= Len(text)
    /\ \/ isdigit(text[i])
       \/ text[i] = "." /\ i + 1 <= Len(text) /\ isdigit(text[i + 1])

(* the value of a character literal: lexeme[1], or the escape lexeme[2] *)
Escapes == [n |-> "\n", t |-> "\t", r |-> "\r"]

charValue(lexeme) ==
    IF lexeme[2] = "\\" /\ Len(lexeme) > 2
    THEN IF lexeme[3] \in DOMAIN Escapes THEN Escapes[lexeme[3]]
         ELSE IF lexeme[3] = "0" THEN NUL ELSE lexeme[3]
    ELSE lexeme[2]

RECURSIVE generateExpression(_, _)

(* generateLiteral(), after resultVarId = getNextVarId() *)
literalValue(node, G, type, value) ==
    returnId(emitInstruction(emitVarDeclaration(G, lastVarId(G), type, 0), "MOV",
                             <<createVariable(lastVarId(G)), value>>),
             0, lastVarId(G))

literalOf(node, G) ==
    CASE node.token.type = "INTEGER_LITERAL" ->
            IF stoi(node.token.lexeme) = <<>> THEN cgThrow(G, "std::invalid_argument")
            ELSE IF stoi(node.token.lexeme)[1] > INT_MAX THEN cgThrow(G, "std::out_of_range")
            ELSE literalValue(node, G, "INT32", createImmediate(stoi(node.token.lexeme)[1]))
      [] node.token.type = "FLOAT_LITERAL" ->
            IF ~stofConverts(node.token.lexeme, stoiSpace(node.token.lexeme, 1))
            THEN cgThrow(G, "std::invalid_argument")
            ELSE literalValue(node, G, "FP32", [kind |-> "float", text |-> node.token.lexeme])
      [] node.token.type = "CHAR_LITERAL" ->
            literalValue(node, G, "INT8",
                         [kind |-> "char", text |-> charValue(node.token.lexeme)])
      [] node.token.type = "STRING_LITERAL" ->
            literalValue(node, cgWarning(G, 0, 0, Msg("String literals not fully implemented", <<>>)),
                         "PTR", createImmediate(0))
      [] OTHER -> returnId(cgError(G, 0, 0, Msg("Unknown literal type", <<>>)), 0, 0)

generateLiteral(node, G) == literalOf(node, getNextVarId(G))

generateVariable(node, G) ==
    IF node.name.lexeme \in DOMAIN G.variables
    THEN returnId(G, 0, G.variables[node.name.lexeme].varId)
    ELSE returnId(cgError(G, node.name.line, node.name.column,
                          Msg("Undefined variable: ", node.name.lexeme)), 0, 0)

(* resultVarId = getNextVarId(), kept on the stack *)
pushVarId(G) == pushId(getNextVarId(G), lastVarId(getNextVarId(G)))

(* generateUnary(): the operand's id is on the stack, resultVarId is taken *)
unaryEmit(G, opcode) ==
    returnId(emitInstruction(emitVarDeclaration(G, lastVarId(G), "INT32", 0), opcode,
                             <<createVariable(lastVarId(G)), createVariable(idAt(G, 0))>>),
             1, lastVarId(G))

unaryOf(node, G) ==
    CASE node.op.type = "OP_MINUS" -> unaryEmit(G, "NEG")
      [] node.op.type = "OP_PLUS" -> unaryEmit(G, "MOV")
      [] node.op.type = "OP_EXCLAMATION" ->
            returnId(emitInstruction(emitCompare(emitVarDeclaration(G, lastVarId(G), "INT32", 0),
                                                 idAt(G, 0)),
                                     "MOV", <<createVariable(lastVarId(G)), createImmediate(1)>>),
                     1, lastVarId(G))
      [] node.op.type = "OP_TILDE" -> unaryEmit(G, "NOT")
      [] node.op.type = "OP_PLUS_PLUS" ->
            emitInstruction(unaryEmit(G, "MOV"), "INC", <<createVariable(idAt(G, 0))>>)
      [] node.op.type = "OP_MINUS_MINUS" ->
            emitInstruction(unaryEmit(G, "MOV"), "DEC", <<createVariable(idAt(G, 0))>>)
      [] node.op.type = "OP_STAR" ->
            cgWarning(G, 0, 0, Msg("Dereference operator not fully implemented", <<>>))
      [] node.op.type = "OP_AMPERSAND" ->
            cgWarning(G, 0, 0, Msg("Address-of operator not fully implemented", <<>>))
      [] OTHER -> returnId(cgError(G, node.op.line, node.op.column,
                                   Msg("Unknown unary operator: ", node.op.lexeme)), 1, 0)

generateUnary(node, G) == unaryOf(node, getNextVarId(generateExpression(node.operand, G)))

ArithmeticOpcodes ==
    [OP_PLUS |-> "ADD", OP_MINUS |-> "SUB", OP_STAR |-> "MUL", OP_SLASH |-> "DIV",
     OP_PERCENT |-> "MOD"]

(* generateBinary(): leftVarId and rightVarId are on the stack *)
binaryOf(node, G) ==
    IF node.op.type \in DOMAIN ArithmeticOpcodes
    THEN returnId(emitInstruction(emitVarDeclaration(G, lastVarId(G), "INT32", 0),
                                  ArithmeticOpcodes[node.op.type],
                                  <<createVariable(lastVarId(G)), createVariable(idAt(G, 1)),
                                    createVariable(idAt(G, 0))>>),
                  2, lastVarId(G))
    ELSE IF node.op.type = "OP_EQUALS"
    THEN popIds(emitInstruction(G, "MOV", <<createVariable(idAt(G, 1)),
                                            createVariable(idAt(G, 0))>>), 1)
    ELSE returnId(cgError(G, node.op.line, node.op.column,
                          Msg("Binary operator not implemented: ", node.op.lexeme)), 2, 0)

generateBinary(node, G) ==
    binaryOf(node,
        getNextVarId(generateExpression(node.right, generateExpression(node.left, G))))

RECURSIVE generateArguments(_, _, _)
generateArguments(arguments, i, G) ==
    IF G.exc # "" \/ i > Len(arguments) THEN G
    ELSE generateArguments(arguments, i + 1, generateExpression(arguments[i], G))

argVarIds(G, n) ==
    IF G.exc # "" THEN <<>> ELSE [k \in 1..n |-> createVariable(G.ids[Len(G.ids) - n + k])]

(* generateCall(): the ids of the arguments are on the stack *)
callOf(funcName, n, G) ==
    returnId(
        emitInstruction(
            emitWithSymbol(cgAddSymbol(emitVarDeclaration(G, lastVarId(G), "INT32", 0),
                                       funcName, "", "0"),
                           "CALL", funcName, <<createType("ABICTL|PARAM")>> \o argVarIds(G, n)),
            "MOV", <<createVariable(lastVarId(G)), createType("ABICTL|RET")>>),
        n, lastVarId(G))

generateCall(node, G) ==
    IF node.callee.kind # "VariableNode"
    THEN returnId(cgError(G, 0, 0, Msg("Only simple function calls supported", <<>>)), 0, 0)
    ELSE callOf(node.callee.name.lexeme, Len(node.arguments),
                getNextVarId(generateArguments(node.arguments, 1, G)))

arrayAccessOf(G) ==
    returnId(emitInstruction(emitVarDeclaration(G, lastVarId(G), "INT32", 0), "INDEX",
                             <<createVariable(lastVarId(G)), createVariable(idAt(G, 1)),
                               createVariable(idAt(G, 0))>>),
             2, lastVarId(G))

generateArrayAccess(node, G) ==
    arrayAccessOf(getNextVarId(generateExpression(node.index,
                                                  generateExpression(node.array, G))))

generateMemberAccess(node, G) ==
    returnId(cgWarning(G, 0, 0, Msg("Member access not implemented", <<>>)), 0, 0)

(* generateConditional(): on the stack are condVarId, the number of the    *)
(* first label and resultVarId, then the id of the branch generated        *)
conditionalBranch(G) ==
    emitJump(emitCompare(emitVarDeclaration(G, idAt(G, 0), "INT32", 0), idAt(G, 2)),
             generateLabel("cond_false", idAt(G, 1)))

conditionalMove(G) ==
    popIds(emitInstruction(G, "MOV", <<createVariable(idAt(G, 1)), createVariable(idAt(G, 0))>>),
           1)

conditionalFalse(G) ==
    emitLabel(emitJump(conditionalMove(G), generateLabel("cond_end", idAt(G, 2) + 1)),
              generateLabel("cond_false", idAt(G, 2)))

conditionalEnd(G) ==
    returnId(emitLabel(conditionalMove(G), generateLabel("cond_end", idAt(G, 2) + 1)),
             3, idAt(G, 1))

generateConditional(node, G) ==
    conditionalEnd(
        generateExpression(node.falseExpr,
            conditionalFalse(
                generateExpression(node.trueExpr,
                    conditionalBranch(
                        pushVarId(generateLabels(generateExpression(node.condition, G), 2)))))))

generateExpression(node, G) ==
    CASE node.kind = "Null" -> returnId(cgError(G, 0, 0, Msg("Null expression", <<>>)), 0, 0)
      [] node.kind = "LiteralNode" -> generateLiteral(node, G)
      [] node.kind = "VariableNode" -> generateVariable(node, G)
      [] node.kind = "UnaryNode" -> generateUnary(node, G)
      [] node.kind = "BinaryNode" -> generateBinary(node, G)
      [] node.kind = "CallNode" -> generateCall(node, G)
      [] node.kind = "ArrayAccessNode" -> generateArrayAccess(node, G)
      [] node.kind = "MemberAccessNode" -> generateMemberAccess(node, G)
      [] node.kind = "ConditionalNode" -> generateConditional(node, G)
      [] OTHER -> returnId(cgError(G, 0, 0, Msg("Unknown expression type: ", <<node.kind>>)),
                           0, 0)

RECURSIVE generateStatement(_, _)

RECURSIVE generateStatements(_, _, _)
generateStatements(statements, i, G) ==
    IF G.exc # "" \/ i > Len(statements) THEN G
    ELSE generateStatements(statements, i + 1, generateStatement(statements[i], G))

(* a block whose SCOPEL is not emitted *)
generateBlockNoScopeLeave(node, G) ==
    cgLeaveScope(generateStatements(node.statements, 1,
                                    cgEnterScope(emitInstruction(G, "SCOPEE", <<>>))))

generateBlock(node, G) ==
    emitInstruction(
        cgLeaveScope(generateStatements(node.statements, 1,
                                        cgEnterScope(emitInstruction(G, "SCOPEE", <<>>)))),
        "SCOPEL", <<>>)

generateExpressionStatement(node, G) == popIds(generateExpression(node.expression, G), 1)

(* a local declaration: varId is on the stack, then the initializer's id *)
localInitialized(node, G) ==
    popIds(emitVarDeclaration(G, idAt(G, 1), coilType(node.type), idAt(G, 0)), 2)

localDeclared(node, G) ==
    IF node.initializer.kind = "Null"
    THEN popIds(emitVarDeclaration(G, idAt(G, 0), coilType(node.type), 0), 1)
    ELSE localInitialized(node, generateExpression(node.initializer, G))

localDeclaration(node, G) ==
    localDeclared(node, addLocal(G, node.name.lexeme, idAt(G, 0), coilType(node.type)))

generateVariableDeclaration(node, G, isGlobal) ==
    IF isGlobal
    THEN cgAddSymbol(translateType(G, node.type), node.name.lexeme, "GLOBAL|DATA",
                     IF node.initializer.kind # "Null" THEN "dataSectionIndex"
                     ELSE "bssSectionIndex")
    ELSE localDeclaration(node, pushVarId(translateType(G, node.type)))

(* CMP of the condition with 0 and BR to the label; the number of the      *)
(* statement's first label is under the condition's id                     *)
branchUnless(G, prefix, k) ==
    popIds(emitJump(emitCompare(G, idAt(G, 0)), generateLabel(prefix, idAt(G, 1) + k)), 1)

ifElse(node, G) ==
    IF node.elseBranch.kind = "Null" THEN G ELSE generateStatement(node.elseBranch, G)

ifEnd(G) == popIds(emitLabel(G, generateLabel("endif", idAt(G, 0) + 1)), 1)

ifThen(G) ==
    emitLabel(emitJump(G, generateLabel("endif", idAt(G, 0) + 1)),
              generateLabel("else", idAt(G, 0)))

generateIfStatement(node, G) ==
    ifEnd(ifElse(node,
        ifThen(generateStatement(node.thenBranch,
            branchUnless(generateExpression(node.condition, generateLabels(G, 2)),
                         "else", 0)))))

loopStart(G, prefix) == emitLabel(G, generateLabel(prefix, idAt(G, 0)))

(* BR to the start label, the end label, and the labels forgotten *)
loopEnd(G, start, end, k) ==
    popIds(emitLabel(emitJump(G, generateLabel(start, idAt(G, 0))),
                     generateLabel(end, idAt(G, 0) + k)), 1)

generateWhileStatement(node, G) ==
    loopEnd(generateStatement(node.body,
                branchUnless(generateExpression(node.condition,
                                 loopStart(generateLabels(G, 2), "while_start")),
                             "while_end", 1)),
            "while_start", "while_end", 1)

doWhileCondition(G) == emitLabel(G, generateLabel("dowhile_condition", idAt(G, 0) + 1))

generateDoWhileStatement(node, G) ==
    loopEnd(branchUnless(generateExpression(node.condition,
                doWhileCondition(generateStatement(node.body,
                    loopStart(generateLabels(G, 3), "dowhile_start")))),
                "dowhile_end", 2),
            "dowhile_start", "dowhile_end", 2)

forInitialized(node, G) ==
    IF node.initializer.kind = "Null" THEN G ELSE generateStatement(node.initializer, G)

forConditioned(node, G) ==
    IF node.condition.kind = "Null" THEN G
    ELSE branchUnless(generateExpression(node.condition, G), "for_end", 2)

forIncremented(node, G) ==
    IF node.increment.kind = "Null" THEN emitLabel(G, generateLabel("for_increment", idAt(G, 0) + 1))
    ELSE popIds(generateExpression(node.increment,
                    emitLabel(G, generateLabel("for_increment", idAt(G, 0) + 1))), 1)

generateForStatement(node, G) ==
    emitInstruction(
        cgLeaveScope(
            loopEnd(forIncremented(node,
                        generateStatement(node.body,
                            forConditioned(node,
                                loopStart(forInitialized(node,
                                              cgEnterScope(emitInstruction(generateLabels(G, 3),
                                                                           "SCOPEE", <<>>))),
                                          "for_start")))),
                    "for_start", "for_end", 2)),
        "SCOPEL", <<>>)

returnValue(G) ==
    popIds(emitInstruction(G, "RET", <<createType("ABICTL|RET"), createVariable(idAt(G, 0))>>),
           1)

generateReturnStatement(node, G) ==
    IF node.value.kind = "Null" THEN emitInstruction(G, "RET", <<createType("ABICTL|RET")>>)
    ELSE returnValue(generateExpression(node.value, G))

generateStatement(node, G) ==
    CASE node.kind = "Null" -> G
      [] node.kind = "BlockNode" -> generateBlock(node, G)
      [] node.kind = "ExpressionStatementNode" -> generateExpressionStatement(node, G)
      [] node.kind = "VariableDeclarationNode" -> generateVariableDeclaration(node, G, FALSE)
      [] node.kind = "IfNode" -> generateIfStatement(node, G)
      [] node.kind = "WhileNode" -> generateWhileStatement(node, G)
      [] node.kind = "DoWhileNode" -> generateDoWhileStatement(node, G)
      [] node.kind = "ForNode" -> generateForStatement(node, G)
      [] node.kind = "ReturnNode" -> generateReturnStatement(node, G)
      [] node.kind = "BreakNode" ->
            cgWarning(G, 0, 0, Msg("Break statement not fully implemented", <<>>))
      [] node.kind = "ContinueNode" ->
            cgWarning(G, 0, 0, Msg("Continue statement not fully implemented", <<>>))
      [] OTHER -> cgError(G, 0, 0, Msg("Unknown statement type: ", <<node.kind>>))

(* a named parameter of generateFunctionDeclaration(): VAR, and MOV from   *)
(* the ABI with the parameter's index i, 0-based                           *)
parameterLoaded(param, i, G) ==
    popIds(emitInstruction(
               emitVarDeclaration(addLocal(G, param.name.lexeme, idAt(G, 0), coilType(param.type)),
                                  idAt(G, 0), coilType(param.type), 0),
               "MOV", <<createVariable(idAt(G, 0)), createType("ABICTL|PARAM"),
                        createImmediate(i)>>), 1)

generateParameter(param, i, G) ==
    IF param.name.lexeme = <<>> THEN G
    ELSE parameterLoaded(param, i, pushVarId(translateType(G, param.type)))

RECURSIVE generateParameters(_, _, _)
generateParameters(parameters, i, G) ==
    IF G.exc # "" \/ i > Len(parameters) THEN G
    ELSE generateParameters(parameters, i + 1, generateParameter(parameters[i], i - 1, G))

functionReturn(G) ==
    IF G.currentFunction = <<"m", "a", "i", "n">>
    THEN emitInstruction(G, "RET", <<createType("ABICTL|RET"), createImmediate(0)>>)
    ELSE emitInstruction(G, "RET", <<>>)

functionBodyOf(node, G) ==
    IF node.body.kind = "Null" THEN G
    ELSE cgLeaveScope(functionReturn(generateBlock(node.body,
            generateParameters(node.parameters, 1, cgEnterScope(G)))))

setFunction(G, name) == IF G.exc # "" THEN G ELSE [G EXCEPT !.currentFunction = name]

generateFunctionDeclaration(node, G) ==
    setFunction(
        functionBodyOf(node,
            emitWithSymbol(
                emitLabel(cgAddSymbol(setFunction(G, node.name.lexeme),
                                      node.name.lexeme, "GLOBAL|FUNCTION", "textSectionIndex"),
                          node.name.lexeme),
                "SYM", node.name.lexeme, <<>>)),
        <<>>)

generateDeclaration(node, G) ==
    CASE node.kind = "FunctionDeclarationNode" -> generateFunctionDeclaration(node, G)
      [] node.kind = "VariableDeclarationNode" -> generateVariableDeclaration(node, G, TRUE)
      [] OTHER -> G

RECURSIVE generateDeclarations(_, _, _)
generateDeclarations(declarations, i, G) ==
    IF G.exc # "" \/ i > Len(declarations) THEN G
    ELSE generateDeclarations(declarations, i + 1, generateDeclaration(declarations[i], G))

generateProgram(node, G) == generateDeclarations(node.declarations, 1, G)

generate(root, eh) ==
    IF root.kind = "Null"
    THEN cgError(CodeGeneratorInit(eh), 0, 0, Msg("Empty AST", <<>>))
    ELSE IF root.kind = "ProgramNode"
    THEN generateProgram(root, initialize(CodeGeneratorInit(eh)))
    ELSE cgError(initialize(CodeGeneratorInit(eh)), 0, 0,
                 Msg("Expected program node as root", <<>>))

-----------------------------------------------------------------------------
(* The lexer run step by step: one scanToken() call of the loop of         *)
(* tokenize() per step, then the END_OF_FILE token.                        *)

MaxSrcLen == 4
MaxOpLen == 3
MaxLitLen == 3

SrcChars == {" ", "\n", "i", "f", "1", "/", "*", "\"", "@"}
OpChars == {"+", "-", "*", "/", "%", "&", "|", "^", "!", "=", "<", ">", "."}
LitChars == {"'", "\\", "1", "e", ".", "x", "\t"}

Strings(chars, n) == UNION {[1..k -> chars] : k \in 0..n}

LexSources ==
    Strings(SrcChars, MaxSrcLen) \cup Strings(OpChars, MaxOpLen)
        \cup Strings(LitChars, MaxLitLen)

InitLex ==
    /\ source \in LexSources
    /\ lex = LexerInit
    /\ spans = <<>>
    /\ pc = "scan"
    /\ errorHandler = ErrorHandlerInit
    /\ ast = NullNode
    /\ semantic = SemanticInit(ErrorHandlerInit)
    /\ coil = CodeGeneratorInit(ErrorHandlerInit)
    /\ ran = <<>>
    /\ exitCode = NotExited
    /\ written = FALSE
    /\ stderr = <<>>
    /\ parser = Parts(<<>>, ParserInit(ErrorHandlerInit))

(* The history variable: a scanToken() call that adds a token adds the     *)
(* token's span, from the offset reached by skipWhitespace() to current.   *)
spanOf(src, L, L2) ==
    IF Len(L2.tokens) > Len(L.tokens)
    THEN <<[first |-> skipWhitespace(src, L).current, last |-> L2.current]>>
    ELSE <<>>

LexScanToken ==
    /\ pc = "scan"
    /\ ~isAtEnd(source, lex)
    /\ LET L == [lex EXCEPT !.start = lex.current]
           L2 == scanToken(source, L)
       IN  /\ lex' = L2
           /\ errorHandler' = L2.eh
           /\ spans' = spans \o spanOf(source, L, L2)
    /\ UNCHANGED <<parser, source, pc, ast, semantic, coil, ran, exitCode, written, stderr>>

LexFinish ==
    /\ pc = "scan"
    /\ isAtEnd(source, lex)
    /\ lex' = pushEof(lex)
    /\ pc' = "lexed"
    /\ UNCHANGED <<parser, source, spans, errorHandler, ast, semantic, coil, ran, exitCode, written, stderr>>

NextLex == LexScanToken \/ LexFinish

SpecLex == InitLex /\ [][NextLex]_vars

-----------------------------------------------------------------------------
(* Properties of the token stream.  The k-th span is the part of the       *)
(* source the k-th token was scanned from.                                 *)

tokenChars(k) == SubSeq(source, spans[k].first + 1, spans[k].last)

(* 1-based line and column of the character at 0-based offset p.           *)
Newlines(src, p) == {j \in 1..p : src[j] = "\n"}
LineOf(src, p) == 1 + Cardinality(Newlines(src, p))
ColumnOf(src, p) ==
    LET nl == Newlines(src, p)
        lastNewline == IF nl = {} THEN 0 ELSE CHOOSE j \in nl : \A i \in nl : i <= j
    IN  p + 1 - lastNewline

isIdentifierShaped(text) ==
    /\ Len(text) >= 1
    /\ isalpha(text[1]) \/ text[1] = "_"
    /\ \A j \in 1..Len(text) : isalnum(text[j]) \/ text[j] = "_"

(* C1: the lexeme of every token other than END_OF_FILE is exactly the     *)
(* characters of the token in the source, without the whitespace or the    *)
(* comment that preceded it.                                               *)
C1_LexemeIsTokenChars ==
    \A k \in 1..Len(spans) : lex.tokens[k].lexeme = tokenChars(k)

(* C2: an identifier-shaped token whose characters are a keyword has the   *)
(* keyword's type wherever it occurs, and every other identifier-shaped    *)
(* token is an IDENTIFIER.                                                 *)
C2_KeywordsRecognisedEverywhere ==
    \A k \in 1..Len(spans) :
        isIdentifierShaped(tokenChars(k)) =>
            lex.tokens[k].type =
                IF \E kw \in Keywords : kw.lexeme = tokenChars(k)
                THEN (CHOOSE kw \in Keywords : kw.lexeme = tokenChars(k)).type
                ELSE "IDENTIFIER"

(* C4: the token sequence tokenize() returns ends with exactly one         *)
(* END_OF_FILE token and has none before it, lexical errors or not.        *)
C4_ExactlyOneEofAtEnd ==
    /\ pc = "lexed" => Len(lex.tokens) >= 1
    /\ \A k \in 1..Len(lex.tokens) :
          lex.tokens[k].type = "END_OF_FILE" <=> (pc = "lexed" /\ k = Len(lex.tokens))

C4_Witness ==
    /\ pc = "lexed"
    /\ hasErrors(lex.eh)
    /\ Len(lex.tokens) >= 2
    /\ lex.tokens[Len(lex.tokens)].type = "END_OF_FILE"

(* C5: every token has line >= 1 and column >= 1, and the line and column  *)
(* of a token are the 1-based position of its first character.             *)
C5_PositionsAreFirstCharacter ==
    /\ \A k \in 1..Len(lex.tokens) :
          lex.tokens[k].line >= 1 /\ lex.tokens[k].column >= 1
    /\ \A k \in 1..Len(spans) :
          /\ lex.tokens[k].line = LineOf(source, spans[k].first)
          /\ lex.tokens[k].column = ColumnOf(source, spans[k].first)

(* The operators of the token set, and the longest one the text starts with. *)
Operators == {n \in TypeNames : n.text[1] \in OpChars}

isPrefix(text, src) == Len(text) <= Len(src) /\ SubSeq(src, 1, Len(text)) = text

longestOperator(rest) ==
    CHOOSE n \in Operators :
        /\ isPrefix(n.text, rest)
        /\ \A m \in Operators : isPrefix(m.text, rest) => Len(m.text) <= Len(n.text)

(* C6: at an operator position the lexer emits the longest operator of the *)
(* token set that is a prefix of the remaining input.                      *)
C6_MaximalMunch ==
    \A k \in 1..Len(spans) :
        source[spans[k].first + 1] \in OpChars =>
            LET n == longestOperator(SubSeq(source, spans[k].first + 1, Len(source)))
            IN  /\ lex.tokens[k].type = n.type
                /\ tokenChars(k) = n.text

C6_Witness ==
    /\ source = <<"<", "<", "=">>
    /\ Len(spans) = 1
    /\ lex.tokens[1].type = "OP_SHL_EQUALS"
    /\ tokenChars(1) = <<"<", "<", "=">>

-----------------------------------------------------------------------------
(* The driver (main.cpp): one step per stage.  A stage that leaves the     *)
(* error flag set makes main() print the diagnostics and return 1.         *)

Flatten(frags) ==
    LET RECURSIVE flat(_)
        flat(k) == IF k = 0 THEN <<>> ELSE flat(k - 1) \o frags[k]
    IN  flat(Len(frags))

(* a driver that goes on to the next stage whatever the error flag says *)
afterStageContinue(eh, next) ==
    pc' = next /\ exitCode' = exitCode /\ stderr' = stderr

(* ErrorEntry::toString(): the parts of the line, and printErrors() *)
LevelNames == [INFO |-> "info", WARNING |-> "warning", ERROR |-> "error"]

toString(entry) ==
    <<entry.filename, ":", entry.line, ":", entry.column, ": ", LevelNames[entry.level], ": ",
      entry.message>>

printErrors(eh) == [k \in 1..Len(eh.errors) |-> toString(eh.errors[k])]

(* the catch clause of main(): "Error: " and what() *)
caught(what) == <<"Error: ", what>>

afterStage(eh, next) ==
    IF hasErrors(eh)
    THEN pc' = "exit" /\ exitCode' = 1 /\ stderr' = stderr \o printErrors(eh)
    ELSE pc' = next /\ exitCode' = exitCode /\ stderr' = stderr

DriverLex ==
    /\ pc = "start"
    /\ lex' = tokenize(source, errorHandler)
    /\ errorHandler' = lex'.eh
    /\ ran' = Append(ran, "lexer")
    /\ afterStage(errorHandler', "lexed")
    /\ UNCHANGED <<parser, source, spans, ast, semantic, coil, written>>

DriverParse ==
    /\ pc = "lexed"
    /\ \E r \in {parse(lex.tokens, errorHandler)} :
          /\ ast' = r.node
          /\ errorHandler' = r.P.eh
    /\ ran' = Append(ran, "parser")
    /\ afterStage(errorHandler', "parsed")
    /\ UNCHANGED <<parser, source, lex, spans, semantic, coil, written>>

DriverSemantic ==
    /\ pc = "parsed"
    /\ semantic' = analyze(ast, errorHandler)
    /\ errorHandler' = semantic'.eh
    /\ ran' = Append(ran, "semantic")
    /\ afterStage(errorHandler', "analyzed")
    /\ UNCHANGED <<parser, source, lex, spans, ast, coil, written>>

(* std::stoi and std::stof throw out of generate(); main() catches         *)
(* std::exception and returns 1.                                           *)
DriverCodegen ==
    /\ pc = "analyzed"
    /\ coil' = generate(ast, errorHandler)
    /\ errorHandler' = coil'.eh
    /\ ran' = Append(ran, "codegen")
    /\ IF coil'.exc # ""
       THEN pc' = "exit" /\ exitCode' = 1 /\ stderr' = Append(stderr, caught(coil'.exc))
       ELSE afterStage(errorHandler', "generated")
    /\ UNCHANGED <<parser, source, lex, spans, ast, semantic, written>>

(* coilObject.encode() and writeFile(): the file is written and main()     *)
(* returns 0, or writeFile() throws and main() returns 1.                  *)
DriverWrite ==
    /\ pc = "generated"
    /\ \E ok \in BOOLEAN :
          /\ written' = ok
          /\ exitCode' = IF ok THEN 0 ELSE 1
          /\ stderr' = IF ok THEN stderr ELSE Append(stderr, caught("writeFile"))
    /\ pc' = "exit"
    /\ UNCHANGED <<parser, source, lex, spans, errorHandler, ast, semantic, coil, ran>>

(* readFile(): the source text is read, or readFile() throws               *)
DriverRead ==
    /\ pc = "read"
    /\ \E ok \in BOOLEAN :
          IF ok THEN pc' = "start" /\ exitCode' = exitCode /\ stderr' = stderr
          ELSE pc' = "exit" /\ exitCode' = 1 /\ stderr' = Append(stderr, caught("readFile"))
    /\ UNCHANGED <<parser, source, lex, spans, errorHandler, ast, semantic, coil, ran, written>>

InitDriver(sources) ==
    /\ source \in sources
    /\ lex = LexerInit
    /\ spans = <<>>
    /\ pc = "start"
    /\ errorHandler = ErrorHandlerInit
    /\ ast = NullNode
    /\ semantic = SemanticInit(ErrorHandlerInit)
    /\ coil = CodeGeneratorInit(ErrorHandlerInit)
    /\ ran = <<>>
    /\ exitCode = NotExited
    /\ written = FALSE
    /\ stderr = <<>>
    /\ parser = Parts(<<>>, ParserInit(ErrorHandlerInit))

(* Functions with one statement of up to MaxExprLen fragments.             *)
MaxExprLen == 3

ExprFrags ==
    { <<"a">>, <<"b">>, <<"+", "=">>, <<"<", "<", "=">>, <<"=">>, <<"*">>, <<"(", "a", ")">>, <<")">> }

FunctionHead == <<"i", "n", "t", " ", "f", "(", ")", "{">>

ParseSources ==
    { FunctionHead \o Flatten(frags) \o <<";", "}">> : frags \in Strings(ExprFrags, MaxExprLen) }

InitParse == InitDriver(ParseSources)

NextParse == DriverLex \/ DriverParse

SpecParse == InitParse /\ [][NextParse]_vars

(* C7: a compound assignment a OP= b parses to a Binary node = whose left  *)
(* operand is a and whose right operand is the Binary node a OP b, and no  *)
(* operand of the two nodes is null.                                       *)
C7_CompoundAssignmentTree ==
    LET toks == lex.tokens
    IN  ( /\ Len(ran) = 2
          /\ Len(toks) = 11
          /\ toks[6].type = "IDENTIFIER"
          /\ toks[7].type \in AssignmentOperators \ {"OP_EQUALS"}
          /\ toks[8].type = "IDENTIFIER"
          /\ toks[9].type = "SEMICOLON" )
        => LET e == ast.declarations[1].body.statements[1].expression
               opText == (CHOOSE n \in TypeNames : n.type = toks[7].type).text
               binary == CHOOSE n \in TypeNames : n.text \o <<"=">> = opText
           IN  /\ e.kind = "BinaryNode"
               /\ e.op.type = "OP_EQUALS"
               /\ e.left.kind = "VariableNode"
               /\ e.left.name = toks[6]
               /\ e.right.kind = "BinaryNode"
               /\ e.right.op.type = binary.type
               /\ e.right.left.kind = "VariableNode"
               /\ e.right.left.name = toks[6]
               /\ e.right.right.kind = "VariableNode"
               /\ e.right.right.name = toks[8]

-----------------------------------------------------------------------------
(* Lexer, parser and semantic analyzer over functions whose bodies are up  *)
(* to MaxStmts fragments: blocks, a declaration of x, uses of x and of the *)
(* parameter a, and the end of f with the start of a second function g.    *)
MaxStmts == 4

StmtFrags ==
    { <<"{", "i", "n", "t", " ", "x", ";", "}">>,
      <<"{", " ", "x", ";", "}">>,
      <<"i", "n", "t", " ", "x", ";">>,
      <<" ", "x", ";">>,
      <<" ", "a", ";">>,
      <<"}", "i", "n", "t", " ", "g", "(", ")", "{">> }

SemHead == <<"i", "n", "t", " ", "f", "(", "i", "n", "t", " ", "a", ")", "{">>

SemTail == <<"r", "e", "t", "u", "r", "n", " ", "0", ";", "}">>

SemSources ==
    { SemHead \o Flatten(frags) \o SemTail : frags \in Strings(StmtFrags, MaxStmts) }

InitSem == InitDriver(SemSources)

NextSem == DriverLex \/ DriverParse \/ DriverSemantic

SpecSem == InitSem /\ [][NextSem]_vars

declareEvents == {k \in 1..Len(semantic.events) : semantic.events[k].kind = "declare"}
useEvents == {k \in 1..Len(semantic.events) : semantic.events[k].kind = "use"}

(* C8: a variable declaration is reported as a redeclaration only when the *)
(* same name was declared earlier in the same scope and that scope is      *)
(* still open; the same name in two sibling blocks or in two functions is  *)
(* not reported.                                                           *)
C8_RedeclarationOnlyInOpenScope ==
    \A k \in declareEvents : semantic.events[k].found => semantic.events[k].proper

(* C9: every use of an identifier resolves to the innermost enclosing      *)
(* declaration of the name, and a use with no declaration in an enclosing  *)
(* open scope is reported as 'Undefined variable', also when the name was  *)
(* declared in a closed sibling block or in an earlier function.           *)
C9_UseResolvesToEnclosingDeclaration ==
    \A k \in useEvents :
        /\ semantic.events[k].found = semantic.events[k].proper
        /\ semantic.events[k].proper = <<>> =>
              \E j \in 1..Len(errorHandler.errors) :
                  errorHandler.errors[j].message =
                      Msg("Undefined variable", semantic.events[k].name)

-----------------------------------------------------------------------------
(* main() over whole programs: the program of the specification's first    *)
(* scenario, and int main(){ ... } with up to MaxProgLen fragments.        *)
MaxProgLen == 3

S1 == <<"i", "n", "t", " ", "m", "a", "i", "n", "(", ")", " ", "{", " ", "r", "e", "t", "u", "r", "n", " ", "0", ";", " ", "}">>

ProgFrags ==
    { <<"r", "e", "t", "u", "r", "n", " ", "0", ";">>,
      <<"i", "n", "t", " ", "x", ";">>,
      <<" ", "x", ";">>,
      <<"1", "<", "1", ";">>,
      <<"r", "e", "t", "u", "r", "n", "/", "*", "*", "/", "1", ";">>,
      <<"@">>,
      <<")">>,
      <<"b", "r", "e", "a", "k", ";">> }

ProgHead == <<"i", "n", "t", " ", "m", "a", "i", "n", "(", ")", "{">>

ProgSources ==
    {S1} \cup { ProgHead \o Flatten(frags) \o <<"}">> : frags \in Strings(ProgFrags, MaxProgLen) }

InitMain ==
    /\ source \in ProgSources
    /\ lex = LexerInit
    /\ spans = <<>>
    /\ pc = "read"
    /\ errorHandler = ErrorHandlerInit
    /\ ast = NullNode
    /\ semantic = SemanticInit(ErrorHandlerInit)
    /\ coil = CodeGeneratorInit(ErrorHandlerInit)
    /\ ran = <<>>
    /\ exitCode = NotExited
    /\ written = FALSE
    /\ stderr = <<>>
    /\ parser = Parts(<<>>, ParserInit(ErrorHandlerInit))

NextMain ==
    \/ DriverRead
    \/ DriverLex
    \/ DriverParse
    \/ DriverSemantic
    \/ DriverCodegen
    \/ DriverWrite

SpecMain == InitMain /\ [][NextMain]_vars

Stages == <<"lexer", "parser", "semantic", "codegen">>

(* C10: main() runs lexer, parser, semantic analyzer and code generator in *)
(* that order; with the error flag set after a stage no later stage runs,  *)
(* no output file is written and the exit code is 1; the file is written   *)
(* and the exit code is 0 only when the four stages ran and left the flag  *)
(* unset.                                                                  *)
C10_DriverStagesAndExit ==
    /\ Len(ran) <= Len(Stages)
    /\ ran = SubSeq(Stages, 1, Len(ran))
    /\ hasErrors(errorHandler) =>
          pc = "exit" /\ exitCode = 1 /\ ~written
    /\ (written \/ exitCode = 0) =>
          /\ written
          /\ exitCode = 0
          /\ ran = Stages
          /\ ~hasErrors(errorHandler)

C10_Witness ==
    /\ ran = SubSeq(Stages, 1, 3)
    /\ hasErrors(errorHandler)
    /\ ~hasErrors(lex.eh)
    /\ pc = "exit"
    /\ exitCode = 1

(* the runs of SpecMain that end with the file written are reached too *)
DriverSucceeds == written /\ exitCode = 0 /\ ran = Stages

isInstruction(k, opcode, operands) ==
    /\ k \in 1..Len(coil.text)
    /\ coil.text[k].opcode = opcode
    /\ coil.text[k].operands = operands

(* C3: compiling int main() { return 0; } records no diagnostic, and the   *)
(* instructions of .text contain PROC(CPU), then SYM(main), then           *)
(* RET(RET_ABI, 0).                                                        *)
C3_MainReturnsZero ==
    (source = S1 /\ pc = "exit" /\ ran # <<>>) =>
        /\ errorHandler.errors = <<>>
        /\ \E i, j, k \in 1..Len(coil.text) :
              /\ i < j /\ j < k
              /\ isInstruction(i, "PROC", <<createImmediate(1)>>)
              /\ isInstruction(j, "SYM",
                               <<createSymbol(findSymbol(coil.symbols, <<"m", "a", "i", "n">>))>>)
              /\ isInstruction(k, "RET", <<createType("ABICTL|RET"), createImmediate(0)>>)

-----------------------------------------------------------------------------
(* Parser::parse() on token streams of any shape, one turn of the loop of  *)
(* program() at a time.  The streams are a head, empty or the opening of a *)
(* function body, followed by up to MaxTokens tokens and END_OF_FILE.      *)
MaxTokens == 3

StreamTypes ==
    {"KW_INT", "KW_CONST", "KW_IF", "IDENTIFIER", "LEFT_PAREN", "RIGHT_PAREN", "LEFT_BRACE",
     "RIGHT_BRACE", "SEMICOLON", "OP_EQUALS"}

StreamHeads ==
    {<<>>, <<"KW_INT", "IDENTIFIER", "LEFT_PAREN", "RIGHT_PAREN", "LEFT_BRACE">>}

TokenStream(types) ==
    [k \in 1..(Len(types) + 1) |->
        IF k <= Len(types) THEN Token(types[k], <<>>, InputFile, 1, k)
        ELSE Token("END_OF_FILE", <<>>, InputFile, 1, k)]

(* the parentheses and braces a body opens, and the most of them one body has *)
MaxOpen == 2

Opened(body) == {k \in DOMAIN body : body[k] \in {"LEFT_PAREN", "LEFT_BRACE"}}

StreamBodies == {body \in Strings(StreamTypes, MaxTokens) : Cardinality(Opened(body)) <= MaxOpen}

TokenStreams ==
    { TokenStream(head \o body) : head \in StreamHeads, body \in StreamBodies }

InitParser ==
    /\ source = <<>>
    /\ \E toks \in TokenStreams : lex = [LexerInit EXCEPT !.tokens = toks]
    /\ spans = <<>>
    /\ pc = "program"
    /\ errorHandler = ErrorHandlerInit
    /\ parser = Parts(<<>>, ParserInit(ErrorHandlerInit))
    /\ ast = NullNode
    /\ semantic = SemanticInit(ErrorHandlerInit)
    /\ coil = CodeGeneratorInit(ErrorHandlerInit)
    /\ ran = <<>>
    /\ exitCode = NotExited
    /\ written = FALSE
    /\ stderr = <<>>

(* one turn of the while loop of program() *)
ParserDeclaration ==
    /\ pc = "program"
    /\ ~parser.P.stalled
    /\ ~parserIsAtEnd(lex.tokens, parser.P)
    /\ parser' = turn(parser.P, tryAppend(lex.tokens, parser.parts,
                                          declaration(lex.tokens, parser.P)))
    /\ errorHandler' = parser'.P.eh
    /\ UNCHANGED <<source, lex, spans, pc, ast, semantic, coil, ran, exitCode, written, stderr>>

(* the loop of program() is left and parse() returns *)
ParserReturn ==
    /\ pc = "program"
    /\ parser.P.stalled \/ parserIsAtEnd(lex.tokens, parser.P)
    /\ \E r \in {parseCatch(makeNode("ProgramNode", parser))} :
          /\ ast' = r.node
          /\ errorHandler' = r.P.eh
    /\ pc' = "parsed"
    /\ UNCHANGED <<source, lex, spans, parser, semantic, coil, ran, exitCode, written, stderr>>

NextParser == ParserDeclaration \/ ParserReturn

SpecParser == InitParser /\ [][NextParser]_vars

(* C11: on every token stream that ends with END_OF_FILE no turn of the    *)
(* declaration loop or of the block loop ends where it began (each         *)
(* recovery by synchronize() consumes a token), no exception is left in    *)
(* flight after a turn, the parser never goes past END_OF_FILE, and        *)
(* parse() returns a program node or has recorded an error.                *)
C11_ParseTerminates ==
    /\ ~parser.P.stalled
    /\ parser.P.exc = ""
    /\ parser.P.current < Len(lex.tokens)
    /\ pc = "parsed" => (ast.kind = "ProgramNode" \/ hasErrors(errorHandler))

(* a statement of a block threw, the block loop recovered, and parse()     *)
(* returned the program with the function in it                            *)
C11_Witness ==
    /\ pc = "parsed"
    /\ ast.kind = "ProgramNode"
    /\ Len(ast.declarations) = 1
    /\ \E k \in 1..Len(errorHandler.errors) :
          errorHandler.errors[k].message = Msg("Expected expression", <<>>)

-----------------------------------------------------------------------------
(* The four stages over programs the code generator is given: main() with  *)
(* up to MaxGenLen fragments and a return, alone or after a global g.  The *)
(* fragments declare x and declare it again in a block with an initializer *)
(* that names x, use x and g under comparison, bitwise and logical         *)
(* operators, and break or continue in the three kinds of loop.            *)
MaxGenLen == 2

GenFrags ==
    { <<"i", "n", "t", " ", "x", "=", "1", ";">>,
      <<"{", "i", "n", "t", " ", "x", "=", " ", "x", "+", "1", ";", "}">>,
      <<" ", "x", "<", " ", "x", ";">>,
      <<" ", "x", "&", " ", "x", ";">>,
      <<" ", "x", "&", "&", " ", "x", ";">>,
      <<" ", "g", ";">>,
      <<"w", "h", "i", "l", "e", "(", "1", ")", "b", "r", "e", "a", "k", ";">>,
      <<"f", "o", "r", "(", ";", ";", ")", "c", "o", "n", "t", "i", "n", "u", "e", ";">>,
      <<"d", "o", "{", "c", "o", "n", "t", "i", "n", "u", "e", ";", "}", "w", "h", "i", "l", "e", "(", "1", ")", ";">> }

GenHeads == { <<"i", "n", "t", " ", "m", "a", "i", "n", "(", ")", "{">>, <<"i", "n", "t", " ", "g", ";", "i", "n", "t", " ", "m", "a", "i", "n", "(", ")", "{">> }

GenTail == <<"r", "e", "t", "u", "r", "n", " ", "0", ";", "}">>

GenSources ==
    { head \o Flatten(frags) \o GenTail : head \in GenHeads, frags \in Strings(GenFrags, MaxGenLen) }

InitGen == InitDriver(GenSources)

NextGen == DriverLex \/ DriverParse \/ DriverSemantic \/ DriverCodegen

SpecGen == InitGen /\ [][NextGen]_vars

(* the code generator ran to its end *)
generated == pc \in {"generated", "exit"} /\ ran = Stages /\ coil.exc = ""

varOperands(k) ==
    {coil.text[k].operands[j].value : j \in {i \in 1..Len(coil.text[k].operands) :
                                               coil.text[k].operands[i].kind = "variable"}}

declaresVar(k, id) ==
    /\ coil.text[k].opcode = "VAR"
    /\ coil.text[k].operands[1] = createVariable(id)

(* the ids that instruction k uses: its variable operands, but for the one *)
(* a VAR declares                                                          *)
usedVars(k) ==
    IF coil.text[k].opcode = "VAR"
    THEN {coil.text[k].operands[j].value : j \in {i \in 2..Len(coil.text[k].operands) :
                                                    coil.text[k].operands[i].kind = "variable"}}
    ELSE varOperands(k)

(* C12: in the instructions of a function every VAR declares an id that no *)
(* earlier VAR declared, and every variable id an instruction uses was     *)
(* declared by an earlier VAR; also when the initializer of a local        *)
(* declaration names the variable the declaration shadows.                 *)
C12_VarDeclaredOnceBeforeUse ==
    generated =>
        \A k \in 1..Len(coil.text) :
            /\ coil.text[k].opcode = "VAR" =>
                  \A j \in 1..(k - 1) : ~declaresVar(j, coil.text[k].operands[1].value)
            /\ \A id \in usedVars(k) : \E j \in 1..(k - 1) : declaresVar(j, id)

C12_Reached == generated /\ \E k \in 1..Len(coil.text) : coil.text[k].opcode = "ADD"

errorsOf(eh) == {k \in 1..Len(eh.errors) : eh.errors[k].level = "ERROR"}

(* C13: for a program the semantic analyzer accepted, the code generator   *)
(* records an error only for an indirect call or an unknown kind of node;  *)
(* comparison, bitwise and logical operators and uses of a global variable *)
(* are generated without an error.                                         *)
C13_OnlyIndirectCallErrors ==
    ran = Stages =>
        \A k \in errorsOf(errorHandler) :
            errorHandler.errors[k].message.text \in
                {"Only simple function calls supported", "Unknown expression type: ",
                 "Unknown statement type: "}

(* the label of a symbol operand, and the instructions that branch to label *)
branchesTo(label) ==
    {k \in 1..Len(coil.text) :
        /\ coil.text[k].opcode = "BR"
        /\ coil.text[k].operands[1] = createSymbol(findSymbol(coil.symbols, label))}

labelAt(label) ==
    {k \in 1..Len(coil.text) :
        /\ coil.text[k].opcode = "SYM"
        /\ coil.text[k].operands[1] = createSymbol(findSymbol(coil.symbols, label))}

(* the statements of the body of the program's last function *)
mainBody == ast.declarations[Len(ast.declarations)].body.statements

loopNumbers == 0..coil.labelCounter

(* a loop whose start label has number n: the instructions from the start  *)
(* label to the end label, k labels later                                  *)
loopRegion(start, end, n, k) ==
    {i \in 1..Len(coil.text) :
        /\ \E s \in labelAt(generateLabel(start, n)) : s < i
        /\ \E e \in labelAt(generateLabel(end, n + k)) : i < e}

(* C14: a break in a loop emits a branch to the end label of the loop and  *)
(* a continue a branch to its continue point: the body of a while loop     *)
(* that is a break holds a BR to while_end, the body of a for loop that is *)
(* a continue a BR to for_increment, and the body of a do-while loop that  *)
(* is a continue a BR to dowhile_condition.                                *)
loopBodiesLeave ==
    \A s \in 1..Len(mainBody) :
        /\ mainBody[s].kind = "WhileNode" => mainBody[s].body.kind = "BreakNode"
        /\ mainBody[s].kind = "ForNode" => mainBody[s].body.kind = "ContinueNode"
        /\ mainBody[s].kind = "DoWhileNode" =>
              /\ mainBody[s].body.kind = "BlockNode"
              /\ mainBody[s].body.statements[1].kind = "ContinueNode"

C14_BreakAndContinueBranch ==
    (generated /\ loopBodiesLeave) =>
        \A n \in loopNumbers :
            /\ labelAt(generateLabel("while_start", n)) # {} =>
                  \E i, j \in branchesTo(generateLabel("while_end", n + 1)) \cap
                                loopRegion("while_start", "while_end", n, 1) : i < j
            /\ labelAt(generateLabel("for_start", n)) # {} =>
                  branchesTo(generateLabel("for_increment", n + 1)) \cap
                      loopRegion("for_start", "for_increment", n, 1) # {}
            /\ labelAt(generateLabel("dowhile_start", n)) # {} =>
                  branchesTo(generateLabel("dowhile_condition", n + 1)) \cap
                      loopRegion("dowhile_start", "dowhile_condition", n, 1) # {}

C14_Reached ==
    /\ generated
    /\ loopBodiesLeave
    /\ \E n \in loopNumbers : labelAt(generateLabel("while_start", n)) # {}
    /\ \E n \in loopNumbers : labelAt(generateLabel("dowhile_start", n)) # {}

-----------------------------------------------------------------------------
(* The type rules of the semantic analyzer over types: the types stack     *)
(* holds the type of a scalar condition and the types of two operands, as  *)
(* the visits of the operands leave them, and one step applies the rule of *)
(* visitBinary(), of visitConditional() or areTypesCompatible() to them.   *)
(* The types are the basic types and the pointers, arrays and functions    *)
(* over them, nested up to MaxTypeDepth.                                   *)
MaxTypeDepth == 1

ArrayLength == 2

RECURSIVE TypesOfDepth(_)
TypesOfDepth(d) ==
    IF d = 0 THEN {createVoid, createChar, createInt, createFloat, createDouble}
    ELSE TypesOfDepth(d - 1)
             \cup {createPointer(t) : t \in TypesOfDepth(d - 1)}
             \cup {createArray(t, ArrayLength) : t \in TypesOfDepth(d - 1)}
             \cup {createFunction(t, <<>>) : t \in TypesOfDepth(d - 1)}

OperandTypes == TypesOfDepth(MaxTypeDepth)

RuleOperators ==
    { Token("OP_PERCENT", <<"%">>, InputFile, 1, 2),
      Token("OP_SLASH", <<"/">>, InputFile, 1, 2),
      Token("OP_AMPERSAND", <<"&">>, InputFile, 1, 2) }

InitTypes ==
    /\ source = <<>>
    /\ lex = LexerInit
    /\ spans = <<>>
    /\ pc = "operands"
    /\ errorHandler = ErrorHandlerInit
    /\ parser = Parts(<<>>, ParserInit(ErrorHandlerInit))
    /\ ast = NullNode
    /\ \E l, r \in OperandTypes :
          semantic = [SemanticInit(ErrorHandlerInit) EXCEPT !.types = <<createInt, l, r>>]
    /\ coil = CodeGeneratorInit(ErrorHandlerInit)
    /\ ran = <<>>
    /\ exitCode = NotExited
    /\ written = FALSE
    /\ stderr = <<>>

(* history: the operand types a rule is applied to *)
operandsEvent(S, rule) ==
    [S EXCEPT !.events = Append(@, [kind |-> rule, left |-> under(S), right |-> top(S)])]

TypesBinary ==
    /\ pc = "operands"
    /\ \E op \in RuleOperators :
          /\ ast' = BinaryNode(NullNode, op, NullNode)
          /\ semantic' = binaryResult(ast', operandsEvent(semantic, "binary"))
    /\ errorHandler' = semantic'.eh
    /\ pc' = "binary"
    /\ UNCHANGED <<source, lex, spans, parser, coil, ran, exitCode, written, stderr>>

TypesConditional ==
    /\ pc = "operands"
    /\ semantic' = conditionalType(operandsEvent(semantic, "conditional"))
    /\ errorHandler' = semantic'.eh
    /\ pc' = "conditional"
    /\ UNCHANGED <<source, lex, spans, parser, ast, coil, ran, exitCode, written, stderr>>

TypesCompatible ==
    /\ pc = "operands"
    /\ semantic' = result(operandsEvent(semantic, "compatible"), 3,
                          areTypesCompatible(under(semantic), top(semantic)))
    /\ pc' = "compatible"
    /\ UNCHANGED <<source, lex, spans, errorHandler, parser, ast, coil, ran, exitCode, written, stderr>>

NextTypes == TypesBinary \/ TypesConditional \/ TypesCompatible

SpecTypes == InitTypes /\ [][NextTypes]_vars

(* the operands of the rule applied, and what the rule left *)
operands == semantic.events[Len(semantic.events)]
reported == semantic.eh.errors # <<>>

(* C15: the operator % is accepted only when both operands are of integer  *)
(* type, Char or Int; with a Float or Double operand on either side it is  *)
(* reported as an error.                                                   *)
C15_PercentNeedsIntegers ==
    (pc = "binary" /\ ast.op.type = "OP_PERCENT") =>
        /\ ~reported => isInteger(operands.left) /\ isInteger(operands.right)
        /\ (isFloatingPoint(operands.left) \/ isFloatingPoint(operands.right)) => reported

(* the pairs of types the rule of compatibility lists *)
RECURSIVE listed(_, _)
listed(src, tgt) ==
    \/ src.kind = tgt.kind /\ src.kind \notin {"POINTER", "ARRAY", "FUNCTION"}
    \/ src.kind = tgt.kind /\ src.kind \in {"POINTER", "ARRAY", "FUNCTION"}
                           /\ listed(src.base[1], tgt.base[1])
    \/ src.kind = "CHAR" /\ tgt.kind = "INT"
    \/ src.kind = "FLOAT" /\ tgt.kind = "DOUBLE"
    \/ src.kind \in {"CHAR", "INT"} /\ tgt.kind \in {"FLOAT", "DOUBLE"}
    \/ src.kind = "ARRAY" /\ tgt.kind = "POINTER" /\ listed(src.base[1], tgt.base[1])

(* C16: areTypesCompatible(src, tgt) is true exactly for identical kinds   *)
(* (pointers, arrays and functions with compatible base types), Char to    *)
(* Int, Float to Double, Char or Int to Float or Double, and Array(T) to   *)
(* Pointer(U) with T compatible to U; it is false for every other pair,    *)
(* such as Int to Char, Double to Float, Float to Int, Int or Float to a   *)
(* pointer and a pointer to Int.                                           *)
C16_CompatibleExactlyListed ==
    pc = "compatible" =>
        /\ top(semantic) = listed(operands.left, operands.right)
        /\ (operands.left.kind = "INT" /\ operands.right.kind = "CHAR") => top(semantic) = FALSE
        /\ (operands.left.kind = "DOUBLE" /\ operands.right.kind = "FLOAT") => top(semantic) = FALSE
        /\ (operands.left.kind = "FLOAT" /\ operands.right.kind = "INT") => top(semantic) = FALSE
        /\ (operands.left.kind \in {"INT", "FLOAT"} /\ operands.right.kind = "POINTER") =>
              top(semantic) = FALSE
        /\ (operands.left.kind = "POINTER" /\ operands.right.kind = "INT") => top(semantic) = FALSE

C16_Witness ==
    /\ pc = "compatible"
    /\ operands.left = createArray(createChar, ArrayLength)
    /\ operands.right = createPointer(createInt)
    /\ top(semantic) = TRUE

(* C17: the type of a conditional expression with a scalar condition is    *)
(* the type of the arm that accepts the other: the else-arm's type when    *)
(* the then-arm's type is compatible to it, otherwise the then-arm's type  *)
(* when the else-arm's type is compatible to it, and an error is reported  *)
(* when neither is.                                                        *)
C17_ConditionalTypeAccepts ==
    pc = "conditional" =>
        IF areTypesCompatible(operands.left, operands.right)
        THEN ~reported /\ top(semantic) = operands.right
        ELSE IF areTypesCompatible(operands.right, operands.left)
        THEN ~reported /\ top(semantic) = operands.left
        ELSE reported

-----------------------------------------------------------------------------
(* Lexer, parser and semantic analyzer over programs of up to MaxFuncs     *)
(* functions: int and void functions named f and g, with no return, with a *)
(* return at the top of the body, in a block or under an if, with a return *)
(* without a value, and with the return of an undeclared x.                *)
MaxFuncs == 2

FuncFrags ==
    { <<"i", "n", "t", " ", "f", "(", ")", "{", "}">>,
      <<"i", "n", "t", " ", "f", "(", ")", "{", "r", "e", "t", "u", "r", "n", " ", "0", ";", "}">>,
      <<"i", "n", "t", " ", "g", "(", ")", "{", "{", "r", "e", "t", "u", "r", "n", " ", "0", ";", "}", "}">>,
      <<"i", "n", "t", " ", "g", "(", ")", "{", "i", "f", "(", "1", ")", "r", "e", "t", "u", "r", "n", " ", "0", ";", "}">>,
      <<"i", "n", "t", " ", "g", "(", ")", "{", "r", "e", "t", "u", "r", "n", ";", "}">>,
      <<"v", "o", "i", "d", " ", "f", "(", ")", "{", "}">>,
      <<"v", "o", "i", "d", " ", "g", "(", ")", "{", "r", "e", "t", "u", "r", "n", " ", "0", ";", "}">>,
      <<"i", "n", "t", " ", "f", "(", ")", "{", "r", "e", "t", "u", "r", "n", " ", "x", ";", "}">> }

RetSources == { Flatten(frags) : frags \in Strings(FuncFrags, MaxFuncs) }

InitRet == InitDriver(RetSources)

NextRet == DriverLex \/ DriverParse \/ DriverSemantic

SpecRet == InitRet /\ [][NextRet]_vars

analyzed == "semantic" \in {ran[k] : k \in 1..Len(ran)}

(* the errors with the text of a message, and those at a token *)
errorsWith(text) ==
    {k \in 1..Len(errorHandler.errors) :
        /\ errorHandler.errors[k].level = "ERROR"
        /\ errorHandler.errors[k].message.text = text}

errorsAt(text, token) ==
    {k \in errorsWith(text) :
        /\ errorHandler.errors[k].line = token.line
        /\ errorHandler.errors[k].column = token.column}

(* C18: when the value of the return statement of an int function is an    *)
(* undeclared identifier, the analysis records exactly one error for it:   *)
(* 'Undefined variable' at the line of the identifier, and no other.       *)
C18_UndefinedReturnValueOneError ==
    (/\ analyzed
     /\ Len(ast.declarations) = 1
     /\ ast.declarations[1].returnType.name.type = "KW_INT"
     /\ Len(ast.declarations[1].body.statements) = 1
     /\ ast.declarations[1].body.statements[1].kind = "ReturnNode"
     /\ ast.declarations[1].body.statements[1].value.kind = "VariableNode") =>
        /\ Len(errorHandler.errors) = 1
        /\ errorsAt("Undefined variable", ast.declarations[1].body.statements[1].value.name)
               = {1}

(* the return statements in a statement, at any depth *)
RECURSIVE returnsIn(_)
returnsIn(node) ==
    CASE node.kind = "ReturnNode" -> <<node>>
      [] node.kind = "BlockNode" ->
            Flatten([k \in 1..Len(node.statements) |-> returnsIn(node.statements[k])])
      [] node.kind = "IfNode" -> returnsIn(node.thenBranch) \o returnsIn(node.elseBranch)
      [] node.kind \in {"WhileNode", "DoWhileNode", "ForNode"} -> returnsIn(node.body)
      [] OTHER -> <<>>

functions ==
    {k \in 1..Len(ast.declarations) :
        /\ ast.declarations[k].kind = "FunctionDeclarationNode"
        /\ ast.declarations[k].body.kind # "Null"}

(* the functions whose name no earlier declaration of the program has *)
firstDeclared ==
    {k \in functions :
        \A j \in 1..(k - 1) : ast.declarations[j].name.lexeme # ast.declarations[k].name.lexeme}

isVoid(k) == ast.declarations[k].returnType.name.type = "KW_VOID"
                 /\ ~ast.declarations[k].returnType.isPointer

(* the type of the value of a return of these programs: an integer         *)
(* literal, or the undeclared x                                            *)
valueType(value) == IF value.kind = "LiteralNode" THEN createInt ELSE createVoid

(* the return statements of the functions fs, and those an error is due for *)
returnsOf(fs) ==
    UNION {{<<k, i>> : i \in 1..Len(returnsIn(ast.declarations[k].body))} : k \in fs}

withoutValue(fs) ==
    {r \in returnsOf(fs) :
        /\ returnsIn(ast.declarations[r[1]].body)[r[2]].value.kind = "Null"
        /\ ~isVoid(r[1])}

incompatibleValue(fs) ==
    {r \in returnsOf(fs) :
        /\ returnsIn(ast.declarations[r[1]].body)[r[2]].value.kind # "Null"
        /\ ~areTypesCompatible(valueType(returnsIn(ast.declarations[r[1]].body)[r[2]].value),
                               typeOfTypeNode(ast.declarations[r[1]].returnType))}

returnRules(fs) ==
    /\ \A k \in fs :
          (errorsAt("Function may not return a value", ast.declarations[k].name) # {})
              <=> (~isVoid(k) /\ returnsIn(ast.declarations[k].body) = <<>>)
    /\ Cardinality(errorsWith("Cannot return value of incompatible type"))
           = Cardinality(incompatibleValue(fs))
    /\ Cardinality(errorsWith("Non-void function should return a value"))
           = Cardinality(withoutValue(fs))

(* C19: for a function with a body, the first of its name, 'may not return *)
(* a value' is reported exactly when the return type is not Void and the   *)
(* body holds no return statement at any depth; a return with a value is   *)
(* checked against the return type, and a return without a value is an     *)
(* error unless the return type is Void.                                   *)
C19_ReturnRulesOfFirstDeclared == analyzed => returnRules(firstDeclared)

(* C19 as stated, for every function with a body *)
C19_ReturnRules == analyzed => returnRules(functions)

C19_Witness ==
    /\ analyzed
    /\ \E k \in firstDeclared :
          /\ ~isVoid(k)
          /\ Len(returnsIn(ast.declarations[k].body)) = 1
          /\ ast.declarations[k].body.statements[1].kind = "IfNode"
    /\ \E k \in firstDeclared :
          errorsAt("Function may not return a value", ast.declarations[k].name) # {}

-----------------------------------------------------------------------------
(* The code generator over the programs int main(){T p;return 0;} for     *)
(* every surface type T: one of the five basic types, const or not,       *)
(* volatile or not, with up to MaxPointerLevel stars.                      *)
MaxPointerLevel == 2

BaseTypeTokens ==
    { Token("KW_VOID", <<"v", "o", "i", "d">>, InputFile, 1, 12),
      Token("KW_CHAR", <<"c", "h", "a", "r">>, InputFile, 1, 12),
      Token("KW_INT", <<"i", "n", "t">>, InputFile, 1, 12),
      Token("KW_FLOAT", <<"f", "l", "o", "a", "t">>, InputFile, 1, 12),
      Token("KW_DOUBLE", <<"d", "o", "u", "b", "l", "e">>, InputFile, 1, 12) }

SurfaceTypes ==
    { TypeNode(base, isConst, isVolatile, level > 0, level) :
        base \in BaseTypeTokens, isConst \in BOOLEAN, isVolatile \in BOOLEAN,
        level \in 0..MaxPointerLevel }

DeclarationOf(type) ==
    ProgramNode(<<
        FunctionDeclarationNode(
            TypeNode(Token("KW_INT", <<"i", "n", "t">>, InputFile, 1, 1), FALSE, FALSE, FALSE, 0),
            Token("IDENTIFIER", <<" ", "m", "a", "i", "n">>, InputFile, 1, 4), <<>>,
            BlockNode(<<VariableDeclarationNode(type,
                            Token("IDENTIFIER", <<" ", "p">>, InputFile, 1, 17), NullNode),
                        ReturnNode(LiteralNode(
                            Token("INTEGER_LITERAL", <<" ", "0">>, InputFile, 1, 26)))>>)) >>)

InitTranslate ==
    /\ source = <<>>
    /\ lex = LexerInit
    /\ spans = <<>>
    /\ pc = "analyzed"
    /\ errorHandler = ErrorHandlerInit
    /\ parser = Parts(<<>>, ParserInit(ErrorHandlerInit))
    /\ \E type \in SurfaceTypes : ast = DeclarationOf(type)
    /\ semantic = SemanticInit(ErrorHandlerInit)
    /\ coil = CodeGeneratorInit(ErrorHandlerInit)
    /\ ran = SubSeq(Stages, 1, 3)
    /\ exitCode = NotExited
    /\ written = FALSE
    /\ stderr = <<>>

NextTranslate == DriverCodegen

SpecTranslate == InitTranslate /\ [][NextTranslate]_vars

declaredType == ast.declarations[1].body.statements[1].type

(* C20: every surface type with at least one star is translated to the IR  *)
(* type PTR, whatever its base type.                                       *)
C20_PointersArePTR ==
    (pc # "analyzed" /\ declaredType.pointerLevel >= 1) =>
        \E k \in 1..Len(coil.text) :
            /\ declaresVar(k, 1)
            /\ coil.text[k].operands[2] = createType("PTR")

-----------------------------------------------------------------------------
(* The four stages over one function with up to MaxLabelStmts statements   *)
(* that generate labels: main, and functions that return a pointer and     *)
(* have the name of a label the generator makes.                           *)
MaxLabelStmts == 2

LabelFrags ==
    { <<"w", "h", "i", "l", "e", "(", "1", ")", "b", "r", "e", "a", "k", ";">>,
      <<"i", "f", "(", "1", ")", "1", ";">>,
      <<"f", "o", "r", "(", ";", ";", ")", "b", "r", "e", "a", "k", ";">>,
      <<"d", "o", "{", "}", "w", "h", "i", "l", "e", "(", "1", ")", ";">> }

LabelFunctions ==
    { <<<<"i", "n", "t", " ", "m", "a", "i", "n", "(", ")", "{">>, <<"r", "e", "t", "u", "r", "n", " ", "0", ";", "}">>>>,
      <<<<"i", "n", "t", "*", "w", "h", "i", "l", "e", "_", "s", "t", "a", "r", "t", "_", "0", "(", ")", "{", "i", "n", "t", "*", "p", ";">>, <<"r", "e", "t", "u", "r", "n", "(", "p", ")", ";", "}">>>>,
      <<<<"i", "n", "t", "*", "e", "n", "d", "i", "f", "_", "1", "(", ")", "{", "i", "n", "t", "*", "p", ";">>, <<"r", "e", "t", "u", "r", "n", "(", "p", ")", ";", "}">>>>,
      <<<<"i", "n", "t", "*", "f", "o", "r", "_", "i", "n", "c", "r", "e", "m", "e", "n", "t", "_", "3", "(", ")", "{", "i", "n", "t", "*", "p", ";">>, <<"r", "e", "t", "u", "r", "n", "(", "p", ")", ";", "}">>>> }

LabelSources ==
    { f[1] \o Flatten(frags) \o f[2] : f \in LabelFunctions, frags \in Strings(LabelFrags, MaxLabelStmts) }

InitLabels == InitDriver(LabelSources)

NextLabels == DriverLex \/ DriverParse \/ DriverSemantic \/ DriverCodegen

SpecLabels == InitLabels /\ [][NextLabels]_vars

(* the symbol an instruction names, and the symbols of functions *)
symbolOf(k) == coil.symbols[coil.text[k].operands[1].value + 1]

functionSymbols ==
    {s \in 1..Len(coil.symbols) : coil.symbols[s].attributes = "GLOBAL|FUNCTION"}

definitionsOf(s) ==
    {k \in 1..Len(coil.text) :
        /\ coil.text[k].opcode = "SYM"
        /\ coil.text[k].operands[1] = createSymbol(s - 1)}

(* C21: no two labels of a compilation collide: a generated label has a    *)
(* name no other generated label and no function has, so a label is        *)
(* defined once and a branch never names the symbol of a function.         *)
C21_LabelsDoNotCollide ==
    generated =>
        /\ \A k \in 1..Len(coil.text) :
              coil.text[k].opcode = "BR" => symbolOf(k).attributes # "GLOBAL|FUNCTION"
        /\ \A s \in 1..Len(coil.symbols) :
              s \notin functionSymbols => Cardinality(definitionsOf(s)) <= 1

-----------------------------------------------------------------------------
printed(entry) == \E j \in 1..Len(stderr) : stderr[j] = toString(entry)

(* main() ended without an exception caught *)
returned == pc = "exit" /\ \A j \in 1..Len(stderr) : stderr[j][1] # "Error: "

(* C22: every warning recorded during a compilation is written to standard *)
(* error, also when the compilation ends without an error; a compilation   *)
(* that records warnings and infos only writes the output file and exits   *)
(* with code 0.                                                            *)
C22_WarningsPrintedAndNotFatal ==
    returned =>
        /\ \A k \in 1..Len(errorHandler.errors) :
              errorHandler.errors[k].level = "WARNING" => printed(errorHandler.errors[k])
        /\ (ran = Stages /\ errorsOf(errorHandler) = {}) => written /\ exitCode = 0

(* C23: every diagnostic a stage records carries the name of the file      *)
(* being compiled, not empty, and a line and a column that are at least 1. *)
C23_DiagnosticsCarryPosition ==
    \A k \in 1..Len(errorHandler.errors) :
        /\ errorHandler.errors[k].filename # ""
        /\ errorHandler.errors[k].line >= 1
        /\ errorHandler.errors[k].column >= 1

-----------------------------------------------------------------------------
(* The SymbolTable on its own: its operations applied one after another to *)
(* the table of a fresh analyzer, on names of TableNames, with at most     *)
(* MaxScopeLevel scopes open.  pc is the operation applied last.           *)

MaxScopeLevel == 2

TableNames == {<<"x">>, <<"y">>}

InitTable ==
    /\ source = <<>>
    /\ lex = LexerInit
    /\ spans = <<>>
    /\ pc = "SymbolTable"
    /\ errorHandler = ErrorHandlerInit
    /\ parser = Parts(<<>>, ParserInit(ErrorHandlerInit))
    /\ ast = NullNode
    /\ semantic = SemanticInit(ErrorHandlerInit)
    /\ coil = CodeGeneratorInit(ErrorHandlerInit)
    /\ ran = <<>>
    /\ exitCode = NotExited
    /\ written = FALSE
    /\ stderr = <<>>

tableStep(operation, T) ==
    /\ pc' = operation
    /\ semantic' = [semantic EXCEPT !.table = T]
    /\ UNCHANGED <<source, lex, spans, errorHandler, parser, ast, coil, ran, exitCode, written, stderr>>

TableEnterScope ==
    /\ semantic.table.currentScope < MaxScopeLevel
    /\ tableStep("enterScope", enterScope(semantic.table)) 

(* leaveScope() in the global scope throws and leaves the table as it is *)
TableLeaveScope ==
    IF semantic.table.currentScope = 0
    THEN tableStep("Cannot leave global scope", semantic.table)
    ELSE tableStep("leaveScope", leaveScope(semantic.table))

TableAddVariable ==
    \E name \in TableNames : tableStep("addVariable", addVariable(semantic.table, name, createInt))

TableAddParameter ==
    \E name \in TableNames : tableStep("addParameter", addParameter(semantic.table, name, createInt))

TableAddFunction ==
    \E name \in TableNames : tableStep("addFunction", addFunction(semantic.table, name, createInt))

NextTable ==
    \/ TableEnterScope
    \/ TableLeaveScope
    \/ TableAddVariable
    \/ TableAddParameter
    \/ TableAddFunction

SpecTable == InitTable /\ [][NextTable]_vars

(* C24: right after enterScope the current frame holds no binding:         *)
(* existsInCurrentScope(n) is false for every name n.                      *)
C24_EnteredScopeIsEmpty ==
    pc = "enterScope" => \A n \in TableNames : ~existsInCurrentScope(semantic.table, n)

-----------------------------------------------------------------------------
(* Programs in which a block declares a name that is a local or the        *)
(* parameter of main, and uses of the name follow the block.               *)

MaxShadowStmts == 2

ShadowHeads == { <<"i", "n", "t", " ", "m", "a", "i", "n", "(", ")", "{", "i", "n", "t", " ", "x", "=", "1", ";">>, <<"i", "n", "t", " ", "m", "a", "i", "n", "(", "i", "n", "t", " ", "x", ")", "{">> }

ShadowFrags == { <<"{", "i", "n", "t", " ", "x", "=", "2", ";", "}">>, <<" ", "x", ";">>, <<"{", " ", "x", ";", "}">>, <<" ", "x", "=", "3", ";">> }

ShadowSources ==
    { head \o Flatten(frags) \o <<"r", "e", "t", "u", "r", "n", " ", "0", ";", "}">> :
        head \in ShadowHeads, frags \in Strings(ShadowFrags, MaxShadowStmts) }

InitShadow == InitDriver(ShadowSources)

NextShadow == DriverLex \/ DriverParse \/ DriverSemantic \/ DriverCodegen

SpecShadow == InitShadow /\ [][NextShadow]_vars

(* C25: a use of a name that the semantic analyzer resolved is resolved by *)
(* the code generator too: in a program that passed the analysis, also     *)
(* after a block that shadowed the name has been left, the use is no       *)
(* 'Undefined variable: ' error of the code generator.                     *)
C25_UsesResolveAfterShadowing ==
    (ran = Stages /\ coil.exc = "") => errorsWith("Undefined variable: ") = {}

-----------------------------------------------------------------------------
(* Parser::synchronize() on its own: called, as the catch clauses call it, *)
(* with the parser at any token of a stream of up to MaxSyncTokens tokens  *)
(* that ends with END_OF_FILE.                                             *)

MaxSyncTokens == 3

SyncTypes == {"SEMICOLON", "KW_IF", "KW_INT", "KW_UNSIGNED", "IDENTIFIER", "OP_EQUALS"}

InitSync ==
    /\ source = <<>>
    /\ \E types \in Strings(SyncTypes, MaxSyncTokens) :
          /\ lex = [LexerInit EXCEPT !.tokens = TokenStream(types)]
          /\ \E current \in 0..Len(types) :
                parser = Parts(<<>>, [ParserInit(ErrorHandlerInit) EXCEPT !.current = current])
    /\ spans = <<>>
    /\ pc = "catch"
    /\ errorHandler = ErrorHandlerInit
    /\ ast = NullNode
    /\ semantic = SemanticInit(ErrorHandlerInit)
    /\ coil = CodeGeneratorInit(ErrorHandlerInit)
    /\ ran = <<>>
    /\ exitCode = NotExited
    /\ written = FALSE
    /\ stderr = <<>>

ParserSynchronize ==
    /\ pc = "catch"
    /\ parser' = Parts(<<>>, synchronize(lex.tokens, parser.P))
    /\ pc' = "synchronized"
    /\ UNCHANGED <<source, lex, spans, errorHandler, ast, semantic, coil, ran, exitCode, written, stderr>>

NextSync == ParserSynchronize

SpecSync == InitSync /\ [][NextSync]_vars

(* the tokens that begin a statement or a declaration *)
Begins == {"KW_IF", "KW_WHILE", "KW_FOR", "KW_RETURN", "KW_BREAK", "KW_CONTINUE"} \cup TypeSpecifiers

(* the parser at position current is at a resumption point *)
resumption(current) ==
    \/ current > 0 /\ lex.tokens[current].type = "SEMICOLON"
    \/ lex.tokens[current + 1].type \in Begins
    \/ lex.tokens[current + 1].type = "END_OF_FILE"

(* C26: synchronize() returns at a resumption point (the token discarded   *)
(* last is ';', or the next token is if, while, for, return, break,        *)
(* continue or a type specifier, or END_OF_FILE), at none after the first  *)
(* one it comes to, and none of the tokens it discards begins a statement  *)
(* or a declaration.                                                       *)
C26_SynchronizeStopsAtResumption ==
    [][ParserSynchronize =>
          /\ resumption(parser'.P.current)
          /\ \A c \in (parser.P.current + 1)..(parser'.P.current - 1) : ~resumption(c)
          /\ \A k \in (parser.P.current + 1)..parser'.P.current : lex.tokens[k].type \notin Begins
       ]_vars

-----------------------------------------------------------------------------
(* Programs of up to MaxUpdates statements that apply ++ or -- to x, in    *)
(* front of it or behind it.                                               *)

MaxUpdates == 2

UpdateHeads == { <<"i", "n", "t", " ", "m", "a", "i", "n", "(", ")", "{", "i", "n", "t", " ", "x", "=", "1", ";">>, <<"i", "n", "t", " ", "m", "a", "i", "n", "(", "i", "n", "t", " ", "x", ")", "{">> }

UpdateFrags == { <<"+", "+", " ", "x", ";">>, <<" ", "x", "+", "+", ";">>, <<"-", "-", " ", "x", ";">>, <<" ", "x", "-", "-", ";">> }

UpdateSources ==
    { head \o Flatten(frags) \o <<"r", "e", "t", "u", "r", "n", " ", "0", ";", "}">> :
        head \in UpdateHeads, frags \in Strings(UpdateFrags, MaxUpdates) }

InitUpdate == InitDriver(UpdateSources)

NextUpdate == DriverLex \/ DriverParse \/ DriverSemantic \/ DriverCodegen

SpecUpdate == InitUpdate /\ [][NextUpdate]_vars

isUpdate(stmt) ==
    /\ stmt.kind = "ExpressionStatementNode"
    /\ stmt.expression.kind = "UnaryNode"
    /\ stmt.expression.op.type \in {"OP_PLUS_PLUS", "OP_MINUS_MINUS"}

(* the ++ and -- expressions of main, in the order of the program *)
updates == SelectSeq(mainBody, isUpdate)

(* the operator is written in front of its operand *)
prefix(stmt) == stmt.expression.op.column < stmt.expression.operand.name.column

(* the instructions that update a variable, and the i-th of them *)
updating == {k \in 1..Len(coil.text) : coil.text[k].opcode \in {"INC", "DEC"}}

updateAt(i) == CHOOSE k \in updating : Cardinality({j \in updating : j < k}) = i - 1

(* the variable the expression yields is a copy of x taken before the update *)
copiedBefore(k) ==
    /\ k > 1
    /\ coil.text[k - 1].opcode = "MOV"
    /\ coil.text[k - 1].operands[2] = coil.text[k].operands[1]

(* C27: ++ and -- in front of x yield the value of x after the update, ++  *)
(* and -- behind x the value before it, and each updates x once: the       *)
(* stream holds one INC or DEC of x for each of the expressions, with the  *)
(* copy of x that the expression yields taken before it exactly when the   *)
(* operator is behind x.                                                   *)
C27_PrefixYieldsUpdatedValue ==
    generated =>
        /\ Cardinality(updating) = Len(updates)
        /\ \A i \in 1..Len(updates) : copiedBefore(updateAt(i)) <=> ~prefix(updates[i])

-----------------------------------------------------------------------------
(* Termination of tokenize().  The loop of tokenize() runs on its own: a   *)
(* step that is possible is taken.                                         *)

SpecLexFair == SpecLex /\ WF_vars(NextLex)

(* C28: tokenize() terminates on every source: each scanToken called while *)
(* input remains consumes at least one character, and the loop ends, with  *)
(* or without lexical errors reported, when the whole input is scanned.    *)
C28_TokenizeTerminates ==
    /\ [][LexScanToken => lex'.current > lex.current]_vars
    /\ <>(pc = "lexed" /\ lex.current = Len(source))

(* tokenize() has returned, an error is recorded and a token was scanned   *)
(* from the input behind the place of the error                            *)
C28_Witness ==
    /\ pc = "lexed"
    /\ errorHandler.errors # <<>>
    /\ \E k \in 1..Len(spans) : LineOf(source, spans[k].first) = errorHandler.errors[1].line
                                /\ ColumnOf(source, spans[k].first) > errorHandler.errors[1].column

-----------------------------------------------------------------------------
(* the scopes open after the first k instructions of the stream *)
scopesOpen(k) ==
    Cardinality({j \in 1..k : coil.text[j].opcode = "SCOPEE"})
        - Cardinality({j \in 1..k : coil.text[j].opcode = "SCOPEL"})

(* C29: when generate() has returned, no prefix of the instruction stream  *)
(* holds more SCOPEL than SCOPEE, the whole stream holds as many of the    *)
(* one as of the other, and the scope stack of the generator is empty.     *)
C29_ScopesBalanced ==
    generated =>
        /\ \A k \in 1..Len(coil.text) : scopesOpen(k) >= 0
        /\ scopesOpen(Len(coil.text)) = 0
        /\ coil.scopeStack = <<>>

(* a stream with a scope opened inside another one *)
C29_Witness == generated /\ \E k \in 1..Len(coil.text) : scopesOpen(k) >= 2

-----------------------------------------------------------------------------
(* the messages of the errors that are thrown where they are detected, and *)
(* not by consume()                                                        *)
ThrownInPlace == {"Expected type specifier", "Expected expression"}

byConsume(entry) == entry.level = "ERROR" /\ entry.message.text \notin ThrownInPlace

(* C30: a missing token that consume() detects is recorded once: when      *)
(* parse() has returned, no two entries of the handler are the same error  *)
(* of consume(), with the same message at the same line and column.        *)
C30_SyntaxErrorsRecordedOnce ==
    pc = "parsed" =>
        \A i, j \in 1..Len(errorHandler.errors) :
            (i # j /\ byConsume(errorHandler.errors[i]))
                => errorHandler.errors[i] # errorHandler.errors[j]
====
